---- MODULE Spec2Model ----
(***************************************************************************)
(* Location Pages Webscore: the rubric (weights, phases), the aggregator   *)
(* of src/lib/analyze/rubric.ts (both revisions kept in the source tree:   *)
(* the phase-gated one and the later one without phases), and the analyze  *)
(* and score request handlers with the evaluators of runAllChecks.         *)
(*                                                                         *)
(* Points are counted in HALF POINTS throughout (check.weight * 0.5 is an  *)
(* integer number of half points): score and max_score hold half points.   *)
(* percentage is held in hundredths of a percent, total_score in percent.  *)
(***************************************************************************)
EXTENDS Integers, Sequences, FiniteSets, TLC

VARIABLES
    gated,            \* TRUE: rubric.ts lines 1-151 (phases); FALSE: lines 153-258
    phase,            \* getCurrentPhase(): NEXT_PUBLIC_PHASE of the process
    checkResults,     \* CheckResult[] handed to the aggregator
    categoryResults,  \* CategoryResult[]
    total_score,      \* computeTotalScore's value, NoScore before it is computed
    pc,               \* position of the request in POST / runAllChecks
    request,          \* the inbound request: endpoint, url, enableAiInsights
    env,              \* process.env: CF_RENDER_ENDPOINT, OPENAI_API_KEY
    rubricData,       \* rubric.v2.0.json as the process finds it: the check ids in it
    worker,           \* the render worker (cloudflare/src/worker.ts): its request and browser
    netCalls,         \* network requests issued so far for this request
    rawData,          \* fetchRaw's value
    parsedHTML,       \* POST's parsed: parseHTML(rawData.html)
    detectedFacts,    \* POST's facts: extractFacts(parsed)
    renderedData,     \* renderRemotely's value, or a failure
    robotsResponse,   \* what the fetch of /robots.txt gave
    sitemapResponse,  \* what the fetch of /sitemap.xml gave
    analyzeData,      \* score route: the analyze route's answer to the internal call
    response          \* the AnalyzeResponse / ScoreResponse sent

vars == <<gated, phase, checkResults, categoryResults, total_score,
          pc, request, env, rubricData, worker, netCalls, rawData, parsedHTML,
          detectedFacts, renderedData,
          robotsResponse, sitemapResponse, analyzeData, response>>

-----------------------------------------------------------------------------
(* Bounds of the model                                                     *)

MaxResults == 2          \* longest hand-built CheckResult list (SpecCategory)
PoolSize == 3            \* check ids hand-built lists draw from (prefix of PoolOrder)
StatusPeriod == 2        \* statuses of a full run repeat with this period (SpecTotal)
MaxCategoryResults == 3  \* longest hand-built CategoryResult list (SpecTotal)
CategoryPoolSize == 2    \* categories hand-built lists draw from (prefix of CategoryPoolOrder)
PagePoolSize == 7        \* HTML documents the fetches can return (prefix of PageOrder)

-----------------------------------------------------------------------------
(* Small helpers                                                           *)

RECURSIVE SumSeq(_)
SumSeq(s) == IF s = <<>> THEN 0 ELSE Head(s) + SumSeq(Tail(s))

Range(s) == {s[i] : i \in DOMAIN s}

MapSeq(s, F(_)) == [i \in DOMAIN s |-> F(s[i])]

RECURSIVE Pow(_, _)
Pow(b, e) == IF e = 0 THEN 1 ELSE b * Pow(b, e - 1)

\* Math.round on a non-negative quotient n/d: floor(n/d + 1/2)
MathRound(n, d) == (2 * n + d) \div (2 * d)

-----------------------------------------------------------------------------
(* The rubric                                                              *)

CheckStatus == {"pass", "partial", "fail", "na"}

StatusOrder == <<"pass", "partial", "fail", "na">>

\* weights of the 24 checks of the first rubric, as the check table lists them
CHECK_INFO ==
    [F1 |-> 6, F2 |-> 4, F3 |-> 4, F4 |-> 3, F5 |-> 3,
     M1 |-> 3, M2 |-> 3, M3 |-> 3, M4 |-> 4, M5 |-> 4, M6 |-> 3,
     S1 |-> 5, S2 |-> 10, S3 |-> 7, S4 |-> 3,
     C1 |-> 5, C2 |-> 5, C3 |-> 3, C4 |-> 2,
     R1 |-> 4, R2 |-> 6,
     N1 |-> 4, N2 |-> 3, N3 |-> 3]

\* weights of the checks added later (N4 and the accessibility category)
README_weights ==
    [N4 |-> 3, A1 |-> 3, A2 |-> 2, A3 |-> 2, A4 |-> 2, A5 |-> 3]

Check(id) ==
    [id |-> id,
     weight |-> IF id \in DOMAIN CHECK_INFO THEN CHECK_INFO[id] ELSE README_weights[id]]

\* rubric.v2.0.json: the categories in declared order, each with the ids of
\* its checks in declared order
CategoryOrder ==
    <<"fetchability", "metadata", "schema", "semantics", "freshness", "brand",
      "accessibility">>

CategoryChecks ==
    <<<<"F1", "F2", "F3", "F4", "F5">>,
      <<"M1", "M2", "M3", "M4", "M5", "M6">>,
      <<"S1", "S2", "S3", "S4">>,
      <<"C1", "C2", "C3", "C4">>,
      <<"R1", "R2">>,
      <<"N1", "N2", "N3", "N4">>,
      <<"A1", "A2", "A3", "A4", "A5">>>>

\* the rubric as loaded by `rubric`
rubric ==
    [version |-> "2.0.0",
     categories |->
       [k \in 1..7 |->
          [id |-> CategoryOrder[k],
           checks |-> [j \in DOMAIN CategoryChecks[k] |-> Check(CategoryChecks[k][j])]]]]

\* rubric.allow_na: the configured set is not part of the source tree
allow_na == {}

CategoryIds == {rubric.categories[i].id : i \in DOMAIN rubric.categories}

CheckIds ==
    UNION {{c.checks[j].id : j \in DOMAIN c.checks} : c \in Range(rubric.categories)}

PHASES ==
    [p \in 0..3 |->
       CASE p = 0 -> [phase |-> 0, enabled_checks |-> {}]
         [] p = 1 -> [phase |-> 1,
                      enabled_checks |->
                        {"F1", "F2", "F5", "M1", "M4", "S1", "S2", "C1", "N1"}]
         [] p = 2 -> [phase |-> 2,
                      enabled_checks |->
                        {"F1", "F2", "F3", "F4", "F5", "M1", "M2", "M3", "M4", "M5",
                         "M6", "S1", "S2", "S3", "C1", "C2", "C3", "C4", "R1", "R2",
                         "N1", "N2", "N3"}]
         [] p = 3 -> [phase |-> 3,
                      enabled_checks |->
                        {"F1", "F2", "F3", "F4", "F5", "M1", "M2", "M3", "M4", "M5",
                         "M6", "S1", "S2", "S3", "S4", "C1", "C2", "C3", "C4", "R1",
                         "R2", "N1", "N2", "N3"}]]

isCheckEnabled(checkId, p) == checkId \in PHASES[p].enabled_checks

canBeNA(checkId) == checkId \in allow_na

\* rubric.categories.find(c => c.id === categoryId)
FindCategory(categoryId) ==
    CHOOSE c \in Range(rubric.categories) : c.id = categoryId

\* category.checks.some(check => check.id === id)
CategoryHasCheck(category, id) ==
    \E j \in DOMAIN category.checks : category.checks[j].id = id

\* rubric.categories.find(c => c.checks.some(...))?.checks.find(c => c.id === id)
CheckInRubric(id) == \E c \in Range(rubric.categories) : CategoryHasCheck(c, id)

FindCheck(id) ==
    LET category == CHOOSE c \in Range(rubric.categories) : CategoryHasCheck(c, id)
    IN  category.checks[CHOOSE j \in DOMAIN category.checks :
                            category.checks[j].id = id]

-----------------------------------------------------------------------------
(* createCheckResult (the same in both revisions)                          *)

\* a plausible slip: integer halving of the weight for partial
createCheckResult_floorHalf(id, status, evidence) ==
    [id |-> id, status |-> status,
     score |-> CASE status = "pass" -> 2 * FindCheck(id).weight
                 [] status = "partial" -> 2 * (FindCheck(id).weight \div 2)
                 [] OTHER -> 0,
     evidence |-> evidence]

createCheckResult(id, status, evidence) ==
    [id |-> id, status |-> status,
     score |-> FindCheck(id).weight * (CASE status = "pass" -> 2
                                         [] status = "partial" -> 1
                                         [] status \in {"fail", "na"} -> 0),
     evidence |-> evidence]

-----------------------------------------------------------------------------
(* The aggregator without phases (rubric.ts lines 153-258)                 *)

CategoryResultOf(category, checkResults_, actualScore, maxScore) ==
    [id |-> category.id,
     checks |-> SelectSeq(checkResults_, LAMBDA r : CategoryHasCheck(category, r.id)),
     score |-> actualScore,
     max_score |-> maxScore,
     percentage |-> IF maxScore > 0 THEN MathRound(10000 * actualScore, maxScore) ELSE 0]

computeCategoryScore(categoryId, checkResults_) ==
    LET category == FindCategory(categoryId)
        maxScore == SumSeq(MapSeq(category.checks, LAMBDA c : 2 * c.weight))
        actualScore ==
            SumSeq(MapSeq(SelectSeq(checkResults_,
                                    LAMBDA r : CategoryHasCheck(category, r.id)),
                          LAMBDA r : r.score))
    IN  CategoryResultOf(category, checkResults_, actualScore, maxScore)

\* a plausible slip: the total normalised against a nominal 100 points
computeTotalScore_nominal100(categoryResults_) ==
    LET actualPoints == SumSeq(MapSeq(categoryResults_, LAMBDA r : r.score))
    IN  MathRound(100 * actualPoints, 2 * 100)

computeTotalScore(categoryResults_) ==
    LET totalPossiblePoints ==
            SumSeq(MapSeq(rubric.categories,
                          LAMBDA c : SumSeq(MapSeq(c.checks, LAMBDA k : 2 * k.weight))))
        actualPoints == SumSeq(MapSeq(categoryResults_, LAMBDA r : r.score))
    IN  IF totalPossiblePoints > 0
        THEN MathRound(100 * actualPoints, totalPossiblePoints)
        ELSE 0

-----------------------------------------------------------------------------
(* The phase-gated aggregator (rubric.ts lines 1-151)                      *)

\* a plausible slip: the earned points are not filtered by the phase
computeCategoryScore_phase_unfiltered(categoryId, checkResults_, p) ==
    LET category == FindCategory(categoryId)
        enabledChecks == SelectSeq(category.checks, LAMBDA c : isCheckEnabled(c.id, p))
        maxScore == SumSeq(MapSeq(enabledChecks, LAMBDA c : 2 * c.weight))
        actualScore ==
            SumSeq(MapSeq(SelectSeq(checkResults_,
                                    LAMBDA r : CategoryHasCheck(category, r.id)),
                          LAMBDA r : r.score))
    IN  CategoryResultOf(category, checkResults_, actualScore, maxScore)

\* a plausible slip: the earned points are not filtered by the category
computeCategoryScore_phase_anyCategory(categoryId, checkResults_, p) ==
    LET category == FindCategory(categoryId)
        enabledChecks == SelectSeq(category.checks, LAMBDA c : isCheckEnabled(c.id, p))
        maxScore == SumSeq(MapSeq(enabledChecks, LAMBDA c : 2 * c.weight))
        actualScore ==
            SumSeq(MapSeq(SelectSeq(checkResults_, LAMBDA r : isCheckEnabled(r.id, p)),
                          LAMBDA r : r.score))
    IN  CategoryResultOf(category, checkResults_, actualScore, maxScore)

computeCategoryScore_phase(categoryId, checkResults_, p) ==
    LET category == FindCategory(categoryId)
        enabledChecks == SelectSeq(category.checks, LAMBDA c : isCheckEnabled(c.id, p))
        maxScore == SumSeq(MapSeq(enabledChecks, LAMBDA c : 2 * c.weight))
        actualScore ==
            SumSeq(MapSeq(SelectSeq(checkResults_,
                                    LAMBDA r : /\ isCheckEnabled(r.id, p)
                                               /\ CategoryHasCheck(category, r.id)),
                          LAMBDA r : r.score))
    IN  CategoryResultOf(category, checkResults_, actualScore, maxScore)

\* a plausible slip: the total normalised against the given results' max_score
computeTotalScore_phase_overGiven(categoryResults_, p) ==
    LET totalPossiblePoints == SumSeq(MapSeq(categoryResults_, LAMBDA r : r.max_score))
        actualPoints == SumSeq(MapSeq(categoryResults_, LAMBDA r : r.score))
    IN  IF totalPossiblePoints > 0
        THEN MathRound(100 * actualPoints, totalPossiblePoints)
        ELSE 0

computeTotalScore_phase(categoryResults_, p) ==
    LET totalPossiblePoints ==
            SumSeq(MapSeq(rubric.categories,
                          LAMBDA c : SumSeq(MapSeq(
                              SelectSeq(c.checks, LAMBDA k : isCheckEnabled(k.id, p)),
                              LAMBDA k : 2 * k.weight))))
        actualPoints == SumSeq(MapSeq(categoryResults_, LAMBDA r : r.score))
    IN  IF totalPossiblePoints > 0
        THEN MathRound(100 * actualPoints, totalPossiblePoints)
        ELSE 0

\* the revision in force
CategoryScore(categoryId, checkResults_) ==
    IF gated THEN computeCategoryScore_phase(categoryId, checkResults_, phase)
             ELSE computeCategoryScore(categoryId, checkResults_)

TotalScore(categoryResults_) ==
    IF gated THEN computeTotalScore_phase(categoryResults_, phase)
             ELSE computeTotalScore(categoryResults_)

-----------------------------------------------------------------------------
(* State before any request and before any aggregation                     *)

NoScore == 0 - 1

NoRequest == [endpoint |-> "none"]

\* the render worker before a request
WorkerIdle ==
    [pc |-> "idle", method |-> "", url |-> "", expectedToken |-> "", authToken |-> "",
     browser |-> "none", page |-> "none", pending |-> 0, status |-> 0, error |-> ""]

Idle ==
    /\ pc = "idle"
    /\ request = NoRequest
    /\ env = [CF_RENDER_ENDPOINT |-> FALSE, OPENAI_API_KEY |-> FALSE]
    /\ rubricData = CheckIds
    /\ worker = WorkerIdle
    /\ netCalls = {}
    /\ rawData = [state |-> "none"]
    /\ parsedHTML = [state |-> "none"]
    /\ detectedFacts = [state |-> "none"]
    /\ renderedData = [state |-> "none"]
    /\ robotsResponse = [state |-> "none"]
    /\ sitemapResponse = [state |-> "none"]
    /\ analyzeData = [state |-> "none"]
    /\ response = [state |-> "none"]

RequestVars == <<pc, request, env, rubricData, worker, netCalls, rawData, parsedHTML,
                 detectedFacts, renderedData,
                 robotsResponse, sitemapResponse, analyzeData, response>>

\* the process is started with one revision of rubric.ts and one NEXT_PUBLIC_PHASE
\* (the revision without phases reports phase 1 in every scorecard)
InitRubric ==
    /\ gated \in BOOLEAN
    /\ phase \in (IF gated THEN DOMAIN PHASES ELSE {1})
    /\ checkResults = <<>>
    /\ categoryResults = <<>>
    /\ total_score = NoScore
    /\ Idle

\* the categories POST aggregates, in its order: six in the phase-gated route,
\* seven in the later one
POSTCategories ==
    IF gated
    THEN <<"fetchability", "metadata", "schema", "semantics", "freshness", "brand">>
    ELSE <<"fetchability", "metadata", "schema", "semantics", "freshness", "brand",
           "accessibility">>

-----------------------------------------------------------------------------
(* SpecCategory: the aggregator applied to hand-built CheckResult lists    *)
(* (any ids of a pool, any statuses, repetitions allowed)                  *)

PoolOrder == <<"R2", "R1", "F5", "S4", "A1", "M1", "S2", "N4">>

PoolIds == {PoolOrder[i] : i \in {j \in DOMAIN PoolOrder : j <= PoolSize}}

Create(id, status) ==
    /\ Len(checkResults) < MaxResults
    /\ categoryResults = <<>>
    /\ checkResults' = Append(checkResults, createCheckResult(id, status, <<>>))
    /\ UNCHANGED <<gated, phase, categoryResults, total_score, RequestVars>>

ComputeCategory(categoryId) ==
    /\ categoryResults = <<>>
    /\ categoryResults' = <<CategoryScore(categoryId, checkResults)>>
    /\ UNCHANGED <<gated, phase, checkResults, total_score, RequestVars>>

\* POST: every category score, then the total
Aggregate ==
    /\ categoryResults = <<>>
    /\ categoryResults' = MapSeq(POSTCategories, LAMBDA c : CategoryScore(c, checkResults))
    /\ total_score' = TotalScore(categoryResults')
    /\ UNCHANGED <<gated, phase, checkResults, RequestVars>>

NextCategory ==
    \/ \E id \in PoolIds, status \in CheckStatus : Create(id, status)
    \/ \E categoryId \in CategoryIds : ComputeCategory(categoryId)
    \/ Aggregate

SpecCategory == InitRubric /\ [][NextCategory]_vars

-----------------------------------------------------------------------------
(* SpecTotal: one CheckResult per check of the rubric, as an evaluator     *)
(* pushes them, then hand-built CategoryResult lists                       *)

RunOrder ==
    <<"F1", "F2", "F3", "F4", "F5", "M1", "M2", "M3", "M4", "M5", "M6",
      "S1", "S2", "S3", "S4", "C1", "C2", "C3", "C4", "R1", "R2",
      "N1", "N2", "N3", "N4", "A1", "A2", "A3", "A4", "A5">>

\* the status of the i-th check under a seed: statuses repeat with StatusPeriod
SeedStatus(seed, i) ==
    StatusOrder[((seed \div Pow(4, i % StatusPeriod)) % 4) + 1]

CategoryPoolOrder ==
    <<"schema", "freshness", "fetchability", "accessibility", "metadata", "semantics",
      "brand">>

CategoryPool ==
    {CategoryPoolOrder[i] : i \in {j \in DOMAIN CategoryPoolOrder : j <= CategoryPoolSize}}

RunChecks(seed) ==
    /\ checkResults = <<>>
    /\ checkResults' =
         [i \in DOMAIN RunOrder |->
            createCheckResult(RunOrder[i], SeedStatus(seed, i), <<>>)]
    /\ UNCHANGED <<gated, phase, categoryResults, total_score, RequestVars>>

AppendCategory(categoryId) ==
    /\ checkResults # <<>>
    /\ total_score = NoScore
    /\ Len(categoryResults) < MaxCategoryResults
    /\ \A i \in DOMAIN categoryResults : categoryResults[i].id \in CategoryPool
    /\ categoryResults' = Append(categoryResults, CategoryScore(categoryId, checkResults))
    /\ UNCHANGED <<gated, phase, checkResults, total_score, RequestVars>>

ComputeAll ==
    /\ checkResults # <<>>
    /\ total_score = NoScore
    /\ categoryResults = <<>>
    /\ categoryResults' = MapSeq(POSTCategories, LAMBDA c : CategoryScore(c, checkResults))
    /\ UNCHANGED <<gated, phase, checkResults, total_score, RequestVars>>

ComputeTotal ==
    /\ checkResults # <<>>
    /\ total_score = NoScore
    /\ total_score' = TotalScore(categoryResults)
    /\ UNCHANGED <<gated, phase, checkResults, categoryResults, RequestVars>>

NextTotal ==
    \/ \E seed \in 0..(Pow(4, StatusPeriod) - 1) : RunChecks(seed)
    \/ \E categoryId \in CategoryPool : AppendCategory(categoryId)
    \/ ComputeAll
    \/ ComputeTotal

SpecTotal == InitRubric /\ [][NextTotal]_vars

-----------------------------------------------------------------------------
(* Properties of the rubric and the aggregator                             *)

\* the weight the rubric configures for a check id, read off the tables
WeightOf(id) == Check(id).weight

NoRepeatedCheck(results) ==
    \A i, j \in DOMAIN results : results[i].id = results[j].id => i = j

NoRepeatedCategory(results) ==
    \A i, j \in DOMAIN results : results[i].id = results[j].id => i = j

\* sum of 2 * weight over the checks of the rubric that count in the process's
\* revision and phase (all of them in the revision without phases)
ActiveChecks == IF gated THEN PHASES[phase].enabled_checks ELSE CheckIds

RECURSIVE SumWeights(_)
SumWeights(ids) ==
    IF ids = {} THEN 0
    ELSE LET id == CHOOSE x \in ids : TRUE
         IN  2 * WeightOf(id) + SumWeights(ids \ {id})

\* C1: for every check id of the rubric, with positive weight w, createCheckResult
\* gives score w for pass, exactly w/2 for partial and 0 for fail and for na
\* (in half points: 2w, w, 0), so pass >= partial >= fail = 0
C1_ScoreByStatus ==
    \A i \in DOMAIN checkResults :
        LET r == checkResults[i]
            w == WeightOf(r.id)
        IN  /\ w > 0
            /\ r.status = "pass" => r.score = 2 * w
            /\ r.status = "partial" => r.score = w /\ 2 * r.score = 2 * w
            /\ r.status \in {"fail", "na"} => r.score = 0
            /\ 0 <= r.score /\ r.score <= 2 * w

\* a partial result of a check of odd weight (its score is a half point value),
\* next to a passed check
C1_Witness ==
    /\ \E i \in DOMAIN checkResults :
          /\ checkResults[i].status = "partial"
          /\ WeightOf(checkResults[i].id) % 2 = 1
          /\ checkResults[i].score = WeightOf(checkResults[i].id)
    /\ \E i \in DOMAIN checkResults :
          checkResults[i].status = "pass" /\ checkResults[i].score > 0

\* C2 as stated: for every category and every list of CheckResults (any ids and
\* statuses, any phase), computeCategoryScore returns 0 <= score <= max_score
C2_Original ==
    \A i \in DOMAIN categoryResults :
        /\ 0 <= categoryResults[i].score
        /\ categoryResults[i].score <= categoryResults[i].max_score

\* C2 amended: for every category and every list of CheckResults that holds at
\* most one result per check id, computeCategoryScore returns
\* 0 <= score <= max_score
C2_ScoreWithinMax ==
    NoRepeatedCheck(checkResults) =>
        \A i \in DOMAIN categoryResults :
            /\ 0 <= categoryResults[i].score
            /\ categoryResults[i].score <= categoryResults[i].max_score

\* every check of a category passed once: the score reaches max_score
C2_Witness ==
    /\ NoRepeatedCheck(checkResults)
    /\ Len(checkResults) >= 2
    /\ \E i \in DOMAIN categoryResults :
          /\ categoryResults[i].max_score > 0
          /\ categoryResults[i].score = categoryResults[i].max_score
          /\ Len(categoryResults[i].checks) >= 2

\* C3 as stated: total_score is an integer in [0,100] for every list of
\* category results and every phase
C3_Original ==
    total_score # NoScore => total_score \in 0..100

\* C3 amended: total_score is an integer in [0,100] for every phase and every
\* list of category results that holds each category at most once, each computed
\* (under that phase) from CheckResults holding each check id at most once
C3_TotalInRange ==
    (/\ total_score # NoScore
     /\ NoRepeatedCategory(categoryResults)
     /\ NoRepeatedCheck(checkResults))
        => total_score \in 0..100

\* every check passed and every category aggregated: the total is 100
C3_Witness ==
    /\ total_score = 100
    /\ NoRepeatedCategory(categoryResults)
    /\ NoRepeatedCheck(checkResults)
    /\ Len(categoryResults) = Len(rubric.categories)

GivenScore == SumSeq(MapSeq(categoryResults, LAMBDA r : r.score))

GivenMaxScore == SumSeq(MapSeq(categoryResults, LAMBDA r : r.max_score))

\* C4 as stated: the total is round(100 * sum of score / sum of max_score), both
\* sums over the given category results, and 0 when that sum of max_score is 0
C4_Original ==
    total_score # NoScore =>
        total_score = IF GivenMaxScore > 0
                      THEN MathRound(100 * GivenScore, GivenMaxScore)
                      ELSE 0

\* C4 amended: the total is round(100 * (sum of score over the given category
\* results) / (sum of weight over all active checks of the rubric)), which is the
\* sum of max_score when every category of the rubric is given exactly once; it
\* is 0, without a division by zero, when no check is active
C4_TotalOverRubric ==
    total_score # NoScore =>
        /\ total_score = IF SumWeights(ActiveChecks) > 0
                         THEN MathRound(100 * GivenScore, SumWeights(ActiveChecks))
                         ELSE 0
        /\ (/\ NoRepeatedCategory(categoryResults)
            /\ {categoryResults[i].id : i \in DOMAIN categoryResults} = CategoryIds)
              => total_score = IF GivenMaxScore > 0
                               THEN MathRound(100 * GivenScore, GivenMaxScore)
                               ELSE 0

\* a total over fewer categories than the rubric has, with points earned, and the
\* denominator still the whole rubric's
C4_Witness ==
    /\ total_score # NoScore
    /\ total_score > 0
    /\ Len(categoryResults) < Len(rubric.categories)
    /\ GivenMaxScore < SumWeights(ActiveChecks)

\* the checks of a category that count and whose result is not na
CountedNotNa(category) ==
    {category.checks[j].id : j \in DOMAIN category.checks} \cap
    {id \in ActiveChecks :
        ~\E i \in DOMAIN checkResults :
            checkResults[i].id = id /\ checkResults[i].status = "na"}

\* C5: a check whose result has status na is excluded from its category's
\* max_score (max_score is the sum of weight over the category's other checks)
C5_NaExcludedFromMax ==
    \A i \in DOMAIN categoryResults :
        categoryResults[i].max_score =
            SumWeights(CountedNotNa(FindCategory(categoryResults[i].id)))

\* C6: no CheckResult with status na exists for a check id for which canBeNA is
\* false
C6_NaOnlyWhenAllowed ==
    \A i \in DOMAIN checkResults :
        checkResults[i].status = "na" => canBeNA(checkResults[i].id)

EnabledOnly == SelectSeq(checkResults, LAMBDA r : isCheckEnabled(r.id, phase))

\* C7: with active phase p, the CheckResults whose id is not enabled in p change
\* none of score, max_score, percentage and total_score: the aggregation of the
\* list is the aggregation of the list without them
C7_DisabledChecksInert ==
    gated =>
        /\ \A i \in DOMAIN categoryResults :
              LET without ==
                      computeCategoryScore_phase(categoryResults[i].id, EnabledOnly, phase)
              IN  /\ categoryResults[i].score = without.score
                  /\ categoryResults[i].max_score = without.max_score
                  /\ categoryResults[i].percentage = without.percentage
        /\ (total_score # NoScore /\ Len(categoryResults) = Len(POSTCategories)) =>
              total_score =
                 computeTotalScore_phase(
                    MapSeq(POSTCategories,
                           LAMBDA c : computeCategoryScore_phase(c, EnabledOnly, phase)),
                    phase)

\* a passed check that the phase does not enable, in a list next to an enabled
\* one, after its category and the total were computed
C7_Witness ==
    /\ gated
    /\ total_score # NoScore
    /\ \E i \in DOMAIN checkResults :
          /\ ~isCheckEnabled(checkResults[i].id, phase)
          /\ checkResults[i].score > 0
    /\ \E i \in DOMAIN checkResults :
          /\ isCheckEnabled(checkResults[i].id, phase)
          /\ checkResults[i].score > 0

-----------------------------------------------------------------------------
(* Strings, as the handlers use them.  A text is a sequence of tokens      *)
(* (words; "," is a token glued to the word before it); no word of the     *)
(* vocabulary is a substring of another, so String.prototype.includes on   *)
(* texts is containment of a contiguous run of tokens.                     *)

toLowerCase(w) ==
    CASE w = "Acme" -> "acme"
      [] w = "Pizza" -> "pizza"
      [] w = "Chicago" -> "chicago"
      [] w = "Welcome" -> "welcome"
      [] w = "Our" -> "our"
      [] w = "Menu" -> "menu"
      [] w = "IL" -> "il"
      [] w = "NOINDEX" -> "noindex"
      [] OTHER -> w

LowerText(t) == [i \in DOMAIN t |-> toLowerCase(t[i])]

\* haystack.includes(needle), both texts
includes(haystack, needle) ==
    \E i \in 0..(Len(haystack) - Len(needle)) :
        SubSeq(haystack, i + 1, i + Len(needle)) = needle

\* [A-Za-z]{2,} : what [A-Z][a-z]+ matches under the i flag
IsLetters2(tok) == tok \notin {",", "a", "24"}

\* [A-Z][a-z]+ matching the whole token
Capitalized(tok) == tok \in {"Acme", "Pizza", "Chicago", "Welcome", "Our", "Menu"}

\* the token starts with [A-Z]{2}
Upper2(tok) == tok \in {"IL", "NOINDEX"}

Min(S) == CHOOSE x \in S : \A y \in S : x <= y

\* last index of the longest run of tokens satisfying P that starts at i
RunEnd(t, i, P(_)) ==
    CHOOSE k \in i..Len(t) :
        /\ \A j \in i..k : P(t[j])
        /\ k = Len(t) \/ ~P(t[k + 1])

\* source.match(/\b(in|at|near)\s+([A-Z][a-z]+(?:\s+[A-Z][a-z]+)*)/i)?.[2]
inMatch(t) ==
    LET starts == {i \in 1..(Len(t) - 1) :
                      /\ toLowerCase(t[i]) \in {"in", "at", "near"}
                      /\ IsLetters2(t[i + 1])}
    IN IF starts = {} THEN <<>>
       ELSE SubSeq(t, Min(starts) + 1, RunEnd(t, Min(starts) + 1, IsLetters2))

\* source.match(/([A-Z][a-z]+(?:\s+[A-Z][a-z]+)*),\s*([A-Z]{2})/)?.[1]
commaMatch(t) ==
    LET starts == {s \in 1..Len(t) :
                      /\ Capitalized(t[s])
                      /\ LET c == RunEnd(t, s, Capitalized) + 1
                         IN c + 1 <= Len(t) /\ t[c] = "," /\ Upper2(t[c + 1])}
    IN IF starts = {} THEN <<>>
       ELSE SubSeq(t, Min(starts), RunEnd(t, Min(starts), Capitalized))

\* source.split(' ')[0]
FirstWord(t) ==
    IF Len(t) >= 2 /\ t[2] = "," THEN SubSeq(t, 1, 2) ELSE SubSeq(t, 1, 1)

\* one-token strings (schema types, links): token.includes(needle)
TokenIncludes(tok, needle) ==
    \/ tok = needle
    \/ <<tok, needle>> \in {<<"FAQPage", "FAQ">>,
                            <<"AggregateRating", "Rating">>,
                            <<"https://facebook.com/acme", "facebook.com">>,
                            <<"https://twitter.com/acme", "twitter.com">>}

\* new Date(s) for the date strings of the model, as the whole days between it
\* and now (2026-11-01); a string that Date cannot parse gives an Invalid Date,
\* whose getTime() is NaN
NewDate(s) ==
    CASE s = "2026-10-01" -> [valid |-> TRUE, daysDiff |-> 31]
      [] s = "2020-01-01" -> [valid |-> TRUE, daysDiff |-> 2496]
      [] OTHER -> [valid |-> FALSE, daysDiff |-> 0]

\* daysDiff <= 180, which is false when daysDiff is NaN
WithinDays180(tok) == NewDate(tok).valid /\ NewDate(tok).daysDiff <= 180

-----------------------------------------------------------------------------
(* JSON values (JSON.parse of a JSON-LD script) and property access        *)

Undefined == [kind |-> "undefined"]

JNull == [kind |-> "null"]

JNumber == [kind |-> "number"]

JString(t) == [kind |-> "string", s |-> t]

JArray(e) == [kind |-> "array", elems |-> e]

JObject(f) == [kind |-> "object", fields |-> f]

\* a script whose content JSON.parse rejects
NotJSON == [kind |-> "invalid"]

\* Boolean(v)
Truthy(v) ==
    CASE v.kind \in {"undefined", "null"} -> FALSE
      [] v.kind = "string" -> v.s # <<>>
      [] OTHER -> TRUE

\* v[k] throws a TypeError
PropThrows(v) == v.kind \in {"undefined", "null"}

\* v[k] for a v that is neither null nor undefined
Prop(v, k) ==
    IF v.kind = "object" /\ k \in DOMAIN v.fields THEN v.fields[k] ELSE Undefined

\* a || b
OrElse(a, b) == IF Truthy(a) THEN a ELSE b

\* new URL(u): the URLs of the model
ParseURL(u) ==
    CASE u = "https://acme.example/a" ->
             [ok |-> TRUE, protocol |-> "https:", hostname |-> "acme.example",
              pathname |-> <<"/", "a">>]
      [] u = "https://www.acme.example/a" ->
             [ok |-> TRUE, protocol |-> "https:", hostname |-> "www.acme.example",
              pathname |-> <<"/", "a">>]
      [] u = "mailto:info@acme.example" ->
             [ok |-> TRUE, protocol |-> "mailto:", hostname |-> "",
              pathname |-> <<>>]
      [] OTHER -> [ok |-> FALSE]
-----------------------------------------------------------------------------
(* HTML documents, by what parseHTML and the regular expressions of        *)
(* runAllChecks read from them                                             *)

\* <img> tags: src ("" when the tag has none) and the alt attribute
Img(src, alt) == [src |-> src, alt |-> alt]

\* imgTag.match(/alt\s*=\s*["']([^"']*)["']/i)?.[1], by kind of alt attribute:
\* "absent" (no alt), "empty" (alt=""), "blank" (alt=" "), a short text, a text
\* holding one of brandKeywords, a text longer than 20 characters, a logo text
AltText(alt) ==
    CASE alt = "absent" -> [captured |-> FALSE, trimmed |-> FALSE, keyword |-> FALSE,
                            long |-> FALSE, logo |-> FALSE]
      [] alt = "empty" -> [captured |-> FALSE, trimmed |-> FALSE, keyword |-> FALSE,
                           long |-> FALSE, logo |-> FALSE]
      [] alt = "blank" -> [captured |-> TRUE, trimmed |-> FALSE, keyword |-> FALSE,
                           long |-> FALSE, logo |-> FALSE]
      [] alt = "Pizza" -> [captured |-> TRUE, trimmed |-> TRUE, keyword |-> FALSE,
                           long |-> FALSE, logo |-> FALSE]
      [] alt = "Acme store front" ->
                          [captured |-> TRUE, trimmed |-> TRUE, keyword |-> TRUE,
                           long |-> FALSE, logo |-> FALSE]
      [] alt = "Wood-fired oven in the kitchen" ->
                          [captured |-> TRUE, trimmed |-> TRUE, keyword |-> FALSE,
                           long |-> TRUE, logo |-> FALSE]
      [] alt = "Acme logo" ->
                          [captured |-> TRUE, trimmed |-> TRUE, keyword |-> FALSE,
                           long |-> FALSE, logo |-> TRUE]

Heading(level, text, id) == [level |-> level, text |-> text, id |-> id]

MainText(words, count, tags, visibleDate) ==
    [words |-> words, count |-> count, tags |-> tags, visibleDate |-> visibleDate]

Repeat(x, n) == [i \in 1..n |-> x]

AcmeBusiness ==
    JObject(("@type" :> JString(<<"LocalBusiness">>))
         @@ ("name" :> JString(<<"Acme", "Pizza">>))
         @@ ("address" :> JObject(("streetAddress" :> JString(<<"Main">>))
                               @@ ("addressLocality" :> JString(<<"Chicago">>))))
         @@ ("telephone" :> JString(<<"555">>))
         @@ ("geo" :> JObject(("latitude" :> JNumber) @@ ("longitude" :> JNumber)))
         @@ ("sameAs" :> JArray(<<JString(<<"https://facebook.com/acme">>),
                                   JString(<<"https://twitter.com/acme">>)>>))
         @@ ("dateModified" :> JString(<<"2026-10-01">>)))

AcmeFAQ == JObject(("@type" :> JArray(<<JString(<<"FAQPage">>)>>)))

AcmeReview ==
    JObject(("@type" :> JString(<<"Review">>))
         @@ ("dateModified" :> JString(<<"2020-01-01">>)))

\* a complete location page
LocalPage ==
    [title |-> <<"Acme", "Pizza", "in", "Chicago">>,
     description |-> <<"Acme", "Pizza", "Chicago", ",", "IL">>,
     canonical |-> "https://acme.example/a",
     robotsMeta |-> <<>>,
     og |-> {"og:title", "og:description", "og:url", "og:image"},
     headings |-> <<Heading(1, <<"Acme", "in", "Chicago">>, FALSE),
                    Heading(2, <<"Our", "Menu">>, TRUE),
                    Heading(3, <<"Pizza">>, FALSE)>>,
     imgs |-> <<Img("/img/logo.png", "Acme logo"), Img("/img/front.jpg", "Acme store front"),
                Img("/img/oven.jpg", "Wood-fired oven in the kitchen"), Img("", "Pizza")>>,
     links |-> Repeat("Our Menu", 6) \o <<"click here">>,
     jsonLdScripts |-> <<AcmeBusiness, JArray(<<AcmeFAQ, AcmeReview>>)>>,
     mainText |-> MainText(1..6, 150, <<>>, FALSE),
     videos |-> <<TRUE, FALSE>>,
     transcript |-> FALSE]

\* the same site before its scripts ran: a shell
ShellPage ==
    [title |-> <<"Acme">>,
     description |-> <<>>,
     canonical |-> "/a",
     robotsMeta |-> <<"NOINDEX">>,
     og |-> {"og:title", "og:image"},
     headings |-> <<>>,
     imgs |-> <<>>,
     links |-> <<>>,
     jsonLdScripts |-> <<NotJSON>>,
     mainText |-> MainText({}, 0, <<>>, FALSE),
     videos |-> <<>>,
     transcript |-> FALSE]

\* a page close to LocalPage in text, with weaker markup
PlainPage ==
    [title |-> <<"Welcome">>,
     description |-> <<"Pizza", "near", "Chicago">>,
     canonical |-> "https://www.acme.example/a",
     robotsMeta |-> <<>>,
     og |-> {"og:title"},
     headings |-> <<Heading(1, <<"Acme", "in", "Chicago">>, FALSE),
                    Heading(3, <<"Pizza">>, FALSE)>>,
     imgs |-> <<Img("/img/front.jpg", "Pizza"), Img("/img/oven.jpg", "absent"),
                Img("/img/x.jpg", "blank")>>,
     links |-> <<"Our Menu", "Go", "click here">>,
     jsonLdScripts |-> <<JObject(("@type" :> JString(<<"WebSite">>))
                              @@ ("name" :> JString(<<"Welcome", "Acme">>))
                              @@ ("url" :> JString(<<"https://acme.example/a">>)))>>,
     mainText |-> MainText(1..5, 900, <<"ul", "li", "li", "form", "input", "nav">>, TRUE),
     videos |-> <<FALSE>>,
     transcript |-> TRUE]

\* LocalPage with a JSON-LD script holding [[null]]
NestedNullPage ==
    [LocalPage EXCEPT !.jsonLdScripts = <<AcmeBusiness, JArray(<<JArray(<<JNull>>)>>)>>]

\* LocalPage whose business names one profile, sameAs being a string
SameAsStringPage ==
    [LocalPage EXCEPT !.jsonLdScripts =
        <<JObject(("@type" :> JString(<<"LocalBusiness">>))
               @@ ("sameAs" :> JString(<<"https://facebook.com/acme">>)))>>]

\* LocalPage with a JSON-LD script holding null
NullItemPage == [LocalPage EXCEPT !.jsonLdScripts = <<JNull, AcmeBusiness>>]

\* LocalPage whose @type array holds a number
TypeNumberPage ==
    [LocalPage EXCEPT !.jsonLdScripts =
        <<JObject(("@type" :> JArray(<<JNumber, JString(<<"LocalBusiness">>)>>)))>>]

\* a light page: a locality in the title only, another heading, two images,
\* two links, other words
LightPage ==
    [ShellPage EXCEPT
       !.title = <<"Acme", "in", "Chicago">>,
       !.robotsMeta = <<>>,
       !.headings = <<Heading(1, <<"Loading">>, FALSE)>>,
       !.imgs = <<Img("/img/logo.png", "Acme logo"), Img("/img/wait.gif", "absent")>>,
       !.links = <<"Home", "Go">>,
       !.mainText = MainText({7, 8}, 40, <<>>, FALSE)]

\* LocalPage with a second h1 and without og:image
TwoH1Page ==
    [LocalPage EXCEPT
       !.og = {"og:title", "og:description", "og:url"},
       !.headings = <<Heading(1, <<"Acme", "in", "Chicago">>, FALSE),
                      Heading(1, <<"Our", "Menu">>, TRUE)>>]

PageOrder ==
    <<LocalPage, ShellPage, PlainPage, LightPage, TwoH1Page, NestedNullPage, SameAsStringPage,
      NullItemPage, TypeNumberPage>>

Pages == {PageOrder[i] : i \in {j \in DOMAIN PageOrder : j <= PagePoolSize}}

-----------------------------------------------------------------------------
(* parseHTML and extractFacts (src/lib/parse/dom.ts)                       *)

\* a plausible slip: the try around the whole loop, so that the first block
\* JSON.parse rejects ends the collection
RECURSIVE pushScripts_abortOnInvalid(_)
pushScripts_abortOnInvalid(scripts) ==
    IF scripts = <<>> THEN <<>>
    ELSE LET v == Head(scripts)
         IN CASE v.kind = "invalid" -> <<>>
              [] v.kind = "array" -> v.elems \o pushScripts_abortOnInvalid(Tail(scripts))
              [] OTHER -> <<v>> \o pushScripts_abortOnInvalid(Tail(scripts))

RECURSIVE pushScripts(_)
pushScripts(scripts) ==
    IF scripts = <<>> THEN <<>>
    ELSE LET v == Head(scripts)
         IN (CASE v.kind = "invalid" -> <<>>
               [] v.kind = "array" -> v.elems
               [] OTHER -> <<v>>) \o pushScripts(Tail(scripts))

\* Array.prototype.flat()
RECURSIVE flat(_)
flat(items) ==
    IF items = <<>> THEN <<>>
    ELSE (IF Head(items).kind = "array" THEN Head(items).elems ELSE <<Head(items)>>)
         \o flat(Tail(items))

parseHTML(html) ==
    LET h1s == SelectSeq(html.headings, LAMBDA h : h.level = 1)
    IN [title |-> html.title,
        description |-> html.description,
        canonical |-> html.canonical,
        noindex |-> includes(LowerText(html.robotsMeta), <<"noindex">>),
        ogTitle |-> "og:title" \in html.og,
        ogDescription |-> "og:description" \in html.og,
        ogUrl |-> "og:url" \in html.og,
        ogImage |-> "og:image" \in html.og,
        h1 |-> IF h1s = <<>> THEN <<>> ELSE h1s[1].text,
        h1s |-> [i \in DOMAIN h1s |-> h1s[i].text],
        headings |-> html.headings,
        images |-> SelectSeq(html.imgs, LAMBDA img : img.src # ""),
        links |-> html.links,
        jsonLd |-> pushScripts(html.jsonLdScripts),
        mainText |-> html.mainText]

\* a string of the page as a JavaScript value: undefined when empty
StringOrUndefined(t) == IF t = <<>> THEN Undefined ELSE JString(t)

\* the smallest index of s whose element satisfies P, 0 when there is none
FirstIndex(s, P(_)) ==
    IF \E i \in DOMAIN s : P(s[i]) THEN Min({i \in DOMAIN s : P(s[i])}) ELSE 0

\* the largest index of s whose element satisfies P, 0 when there is none
LastIndex(s, P(_)) ==
    IF \E i \in DOMAIN s : P(s[i])
    THEN CHOOSE i \in DOMAIN s : P(s[i]) /\ \A j \in DOMAIN s : P(s[j]) => j <= i
    ELSE 0

\* item.address?.k
OptProp(v, k) == IF PropThrows(v) THEN Undefined ELSE Prop(v, k)

\* item.name, item.address, item.geo on a null item: TypeError
extractFactsThrows(parsed) == \E i \in DOMAIN parsed.jsonLd : PropThrows(parsed.jsonLd[i])

localityOf(source) ==
    IF inMatch(source) # <<>> THEN inMatch(source) ELSE commaMatch(source)

extractFacts(parsed) ==
    LET brandSources ==
            <<StringOrUndefined(parsed.title), StringOrUndefined(parsed.h1)>>
            \o [i \in DOMAIN parsed.jsonLd |->
                   OrElse(Prop(parsed.jsonLd[i], "name"), Prop(parsed.jsonLd[i], "@type"))]
        b == FirstIndex(brandSources, LAMBDA v : v.kind = "string" /\ v.s # <<>>)
        localitySources ==
            <<StringOrUndefined(parsed.title), StringOrUndefined(parsed.h1)>>
            \o [i \in DOMAIN parsed.jsonLd |->
                   OrElse(OptProp(Prop(parsed.jsonLd[i], "address"), "locality"),
                          OptProp(Prop(parsed.jsonLd[i], "address"), "addressLocality"))]
        l == FirstIndex(localitySources,
                        LAMBDA v : v.kind = "string" /\ localityOf(v.s) # <<>>)
        a == LastIndex(parsed.jsonLd, LAMBDA item : Truthy(Prop(item, "address")))
        g == LastIndex(parsed.jsonLd, LAMBDA item : Truthy(Prop(item, "geo")))
    IN [brand |-> IF b = 0 THEN <<>> ELSE FirstWord(brandSources[b].s),
        locality |-> IF l = 0 THEN <<>> ELSE localityOf(localitySources[l].s),
        address |-> IF a = 0 THEN Undefined
                    ELSE JObject(
                        ("street" :> Prop(Prop(parsed.jsonLd[a], "address"), "streetAddress"))
                     @@ ("locality" :> Prop(Prop(parsed.jsonLd[a], "address"), "addressLocality"))
                     @@ ("region" :> Prop(Prop(parsed.jsonLd[a], "address"), "addressRegion"))
                     @@ ("postal" :> Prop(Prop(parsed.jsonLd[a], "address"), "postalCode"))
                     @@ ("country" :> Prop(Prop(parsed.jsonLd[a], "address"), "addressCountry"))),
        geo |-> IF g = 0 THEN Undefined ELSE Prop(parsed.jsonLd[g], "geo")]
-----------------------------------------------------------------------------
(* runAllChecks: what each evaluator reads, and the result it pushes       *)

\* the URL a successful raw fetch ends at (response.url)
FinalUrl == "https://acme.example/a"

\* renderedParsed: parseHTML(renderedData.html) once renderRemotely has resolved,
\* parsed otherwise
RenderedParsed(rawData_, renderedData_) ==
    IF renderedData_.state = "ok" THEN parseHTML(renderedData_.html)
    ELSE parseHTML(rawData_.html)

\* renderedHtml = renderedData ? renderedData.html : rawData.html
RenderedHtml(rawData_, renderedData_) ==
    IF renderedData_.state = "ok" THEN renderedData_.html ELSE rawData_.html

\* the values runAllChecks works on
Context(rawData_, renderedData_, robots_, sitemap_) ==
    [rawData |-> rawData_,
     parsed |-> parseHTML(rawData_.html),
     facts |-> LET parsed == {parseHTML(rawData_.html)}
               IN CHOOSE facts \in {extractFacts(p) : p \in parsed} : TRUE,
     renderedData |-> renderedData_,
     renderedParsed |-> RenderedParsed(rawData_, renderedData_),
     renderedHtml |-> RenderedHtml(rawData_, renderedData_),
     robots |-> robots_,
     sitemap |-> sitemap_]

Count(s, P(_)) == Len(SelectSeq(s, P))

IsPrefix(p, v) == Len(p) <= Len(v) /\ SubSeq(v, 1, Len(p)) = p

\* text.toLowerCase().includes(fact.toLowerCase()), guarded by the fact being set
HasFact(text, fact) == fact # <<>> /\ includes(LowerText(text), LowerText(fact))

checkF1(c) ==
    IF c.rawData.status = 200
    THEN createCheckResult("F1", "pass", <<"Page returns HTTP 200 OK">>)
    ELSE createCheckResult("F1", "fail", <<"Page returns HTTP ", ToString(c.rawData.status)>>)

checkF2(c) ==
    IF ~c.parsed.noindex
    THEN createCheckResult("F2", "pass", <<"No noindex meta tag found">>)
    ELSE createCheckResult("F2", "fail", <<"noindex meta tag found">>)

\* robotsText.includes(`Disallow: ${path}`) || robotsText.includes('Disallow: /')
isBlocked(robotsText, path) ==
    \/ \E i \in DOMAIN robotsText :
          robotsText[i].field = "Disallow" /\ IsPrefix(path, robotsText[i].value)
    \/ \E i \in DOMAIN robotsText :
          robotsText[i].field = "Disallow" /\ IsPrefix(<<"/">>, robotsText[i].value)

\* robotsText.includes('User-agent: GPTBot') && robotsText.includes('Disallow:')
gptBotBlocked(robotsText) ==
    /\ \E i \in DOMAIN robotsText :
          robotsText[i].field = "User-agent" /\ IsPrefix(<<"GPTBot">>, robotsText[i].value)
    /\ \E i \in DOMAIN robotsText : robotsText[i].field = "Disallow"

\* a plausible slip: a robots.txt that cannot be read counts against the page
checkF3_missingFails(c) ==
    IF c.robots.state = "ok"
    THEN IF ~isBlocked(c.robots.text, ParseURL(c.rawData.finalUrl).pathname)
            /\ ~gptBotBlocked(c.robots.text)
         THEN createCheckResult("F3", "pass", <<"robots.txt allows crawling and GPTBot">>)
         ELSE createCheckResult("F3", "fail", <<"Page path is blocked in robots.txt">>)
    ELSE createCheckResult("F3", "fail", <<"No robots.txt found">>)

checkF3(c) ==
    IF c.robots.state = "ok"
    THEN IF ~isBlocked(c.robots.text, ParseURL(c.rawData.finalUrl).pathname)
            /\ ~gptBotBlocked(c.robots.text)
         THEN createCheckResult("F3", "pass", <<"robots.txt allows crawling and GPTBot">>)
         ELSE createCheckResult("F3", "fail",
                  <<IF isBlocked(c.robots.text, ParseURL(c.rawData.finalUrl).pathname)
                    THEN "Page path is blocked in robots.txt"
                    ELSE "GPTBot is blocked in robots.txt">>)
    ELSE createCheckResult("F3", "pass", <<"No robots.txt found (default allow)">>)

checkF4(c) ==
    IF c.parsed.canonical # ""
    THEN IF ParseURL(c.parsed.canonical).ok
         THEN IF ParseURL(c.parsed.canonical).protocol \in {"http:", "https:"}
              THEN createCheckResult("F4", "pass", <<"Canonical URL found">>)
              ELSE createCheckResult("F4", "fail", <<"Canonical URL is not absolute">>)
         ELSE createCheckResult("F4", "fail", <<"Canonical URL is invalid">>)
    ELSE createCheckResult("F4", "fail", <<"No canonical URL found">>)

\* calculateTextSimilarity as the fraction [num, den]
calculateTextSimilarity(text1, text2) ==
    IF text1.count = 0 \/ text2.count = 0 THEN [num |-> 0, den |-> 1]
    ELSE [num |-> Cardinality(text1.words \cap text2.words),
          den |-> Cardinality(text1.words \cup text2.words)]

Abs(n) == IF n < 0 THEN 0 - n ELSE n

checkF5(c) ==
    IF c.renderedData.state = "ok"
    THEN LET h1Match == c.parsed.h1 = c.renderedParsed.h1
             textSimilarity ==
                 calculateTextSimilarity(c.parsed.mainText, c.renderedParsed.mainText)
             imageDiff == Abs(Len(c.rawData.html.imgs) - Len(c.renderedData.html.imgs))
             linkDiff == Abs(Len(c.parsed.links) - Len(c.renderedParsed.links))
             hasSignificantDifferences == imageDiff > 2 \/ linkDiff > 5
         IN IF /\ h1Match
               /\ 10 * textSimilarity.num > 8 * textSimilarity.den
               /\ ~hasSignificantDifferences
            THEN createCheckResult("F5", "pass",
                     <<"H1 matches between raw and rendered HTML">>)
            ELSE IF \/ h1Match /\ 10 * textSimilarity.num > 6 * textSimilarity.den
                    \/ ~hasSignificantDifferences
                 THEN createCheckResult("F5", "partial",
                          <<IF h1Match THEN "H1 matches" ELSE "H1 differs">>)
                 ELSE createCheckResult("F5", "fail",
                          <<IF h1Match THEN "H1 matches" ELSE "H1 differs",
                            "Significant content differences detected">>)
    ELSE createCheckResult("F5", "fail",
             <<"JS rendering failed: ", c.renderedData.message>>)

checkM1(c) ==
    IF c.parsed.title # <<>>
    THEN createCheckResult("M1", "pass", <<"Title found">>)
    ELSE createCheckResult("M1", "fail", <<"No title tag found">>)

checkM2(c) ==
    IF c.parsed.title # <<>>
    THEN LET hasBrand == HasFact(c.parsed.title, c.facts.brand)
             hasLocality == HasFact(c.parsed.title, c.facts.locality)
         IN IF hasBrand /\ hasLocality
            THEN createCheckResult("M2", "pass", <<"Title contains both brand and locality">>)
            ELSE IF hasBrand \/ hasLocality
                 THEN createCheckResult("M2", "partial", <<"Title contains one but not both">>)
                 ELSE createCheckResult("M2", "fail",
                          <<"Title does not contain brand or locality">>)
    ELSE createCheckResult("M2", "fail", <<"No title found">>)

checkM3(c) ==
    IF c.parsed.description # <<>>
    THEN createCheckResult("M3", "pass", <<"Meta description found">>)
    ELSE createCheckResult("M3", "fail", <<"No meta description found">>)

checkM4(c) ==
    IF c.parsed.description # <<>>
    THEN LET hasBrand == HasFact(c.parsed.description, c.facts.brand)
             hasLocality == HasFact(c.parsed.description, c.facts.locality)
         IN IF hasBrand /\ hasLocality
            THEN createCheckResult("M4", "pass",
                     <<"Description contains both brand and locality">>)
            ELSE IF hasBrand \/ hasLocality
                 THEN createCheckResult("M4", "partial",
                          <<"Description contains one but not both">>)
                 ELSE createCheckResult("M4", "fail",
                          <<"Description does not contain brand or locality">>)
    ELSE createCheckResult("M4", "fail", <<"No meta description found">>)

\* Array.prototype.join(', ') over texts
RECURSIVE join(_)
join(texts) ==
    IF texts = <<>> THEN <<>>
    ELSE IF Len(texts) = 1 THEN texts[1]
    ELSE texts[1] \o <<", ">> \o join(Tail(texts))

\* ogChecks: the four properties with the values parseHTML found
ogChecks(parsed) ==
    <<[prop |-> "og:title", value |-> parsed.ogTitle],
      [prop |-> "og:description", value |-> parsed.ogDescription],
      [prop |-> "og:url", value |-> parsed.ogUrl],
      [prop |-> "og:image", value |-> parsed.ogImage]>>

\* `Found ${foundOg}/4 Open Graph tags`, `Missing: ${...join(', ')}`
ogEvidence(parsed) ==
    LET found == SelectSeq(ogChecks(parsed), LAMBDA check : check.value)
        missing == SelectSeq(ogChecks(parsed), LAMBDA check : ~check.value)
    IN  <<"Found ", ToString(Len(found)), "/4 Open Graph tags", "Missing: ">>
        \o join([i \in DOMAIN missing |-> <<missing[i].prop>>])

\* a plausible slip: partial only from three tags on
checkM5_partialFrom3(c) ==
    LET foundOg == Len(SelectSeq(ogChecks(c.parsed), LAMBDA check : check.value))
    IN IF foundOg = 4
       THEN createCheckResult("M5", "pass", <<"All Open Graph tags found">>)
       ELSE IF foundOg >= 3
            THEN createCheckResult("M5", "partial", ogEvidence(c.parsed))
            ELSE createCheckResult("M5", "fail", ogEvidence(c.parsed))

checkM5(c) ==
    LET foundOg == Len(SelectSeq(ogChecks(c.parsed), LAMBDA check : check.value))
    IN IF foundOg = 4
       THEN createCheckResult("M5", "pass", <<"All Open Graph tags found">>)
       ELSE IF foundOg >= 2
            THEN createCheckResult("M5", "partial", ogEvidence(c.parsed))
            ELSE createCheckResult("M5", "fail", ogEvidence(c.parsed))

checkM6(c) ==
    IF c.parsed.canonical # ""
    THEN IF ParseURL(c.parsed.canonical).ok
         THEN IF ParseURL(c.parsed.canonical).hostname
                     = ParseURL(c.rawData.finalUrl).hostname
              THEN createCheckResult("M6", "pass", <<"Canonical host matches current host">>)
              ELSE createCheckResult("M6", "fail",
                       <<"Canonical host does not match current host">>)
         ELSE createCheckResult("M6", "fail", <<"Invalid canonical URL">>)
    ELSE createCheckResult("M6", "fail", <<"No canonical URL to compare">>)

businessTypes ==
    {"LocalBusiness", "Organization", "Store", "Restaurant", "Hotel", "MedicalBusiness",
     "ProfessionalService", "FinancialService", "AutomotiveBusiness",
     "EntertainmentBusiness"}

contentTypes ==
    {"FAQ", "Product", "Service", "Offer", "Event", "Article", "BlogPosting", "HowTo",
     "Recipe", "Review"}

richContentTypes ==
    {"Review", "Rating", "ImageObject", "VideoObject", "AudioObject", "MediaObject",
     "BreadcrumbList", "SiteNavigationElement"}

contactFields ==
    <<"address", "telephone", "email", "openingHours", "contactPoint", "geo", "url">>

\* the platforms of socialPlatforms that the links of the model can name
socialPlatforms == {"facebook.com", "twitter.com", "instagram.com", "linkedin.com"}

\* types.some(x => t.includes(x)) for one element t of an @type array, or for a
\* string @type: a string is searched, an array is searched for an equal element
TypeMatches(t, types) ==
    CASE t.kind = "string" ->
             \E i \in DOMAIN t.s : \E x \in types : TokenIncludes(t.s[i], x)
      [] t.kind = "array" ->
             \E i \in DOMAIN t.elems :
                 t.elems[i].kind = "string" /\ \E x \in types : t.elems[i].s = <<x>>
      [] OTHER -> FALSE

\* t.includes is not a function
IncludesThrows(t) == t.kind \notin {"string", "array"}

\* the callback of parsed.jsonLd.filter in S1, S2 and S4
TypeFilter(item, types) ==
    LET type == Prop(item, "@type")
    IN CASE type.kind = "string" -> TypeMatches(type, types)
         [] type.kind = "array" ->
                \E i \in DOMAIN type.elems : TypeMatches(type.elems[i], types)
         [] OTHER -> FALSE

\* type.some(...) reaches an element without includes before one that matches
TypeFilterThrows(jsonLd, types) ==
    \E n \in DOMAIN jsonLd :
        \/ PropThrows(jsonLd[n])
        \/ LET type == Prop(jsonLd[n], "@type")
           IN /\ type.kind = "array"
              /\ \E i \in DOMAIN type.elems :
                    /\ IncludesThrows(type.elems[i])
                    /\ \A j \in 1..(i - 1) : ~TypeMatches(type.elems[j], types)

checkS1(c) ==
    IF Count(c.parsed.jsonLd, LAMBDA item : TypeFilter(item, businessTypes)) > 0
    THEN createCheckResult("S1", "pass", <<"Core business schema found">>)
    ELSE createCheckResult("S1", "fail", <<"No core business schema found">>)

checkS2(c) ==
    LET foundContentTypes ==
            Count(c.parsed.jsonLd, LAMBDA item : TypeFilter(item, contentTypes))
    IN IF foundContentTypes >= 2
       THEN createCheckResult("S2", "pass", <<"Found content enhancement schema types">>)
       ELSE IF foundContentTypes = 1
            THEN createCheckResult("S2", "partial",
                     <<"Found 1 content enhancement schema type">>)
            ELSE createCheckResult("S2", "fail", <<"No content enhancement schema found">>)

\* items.some(item => item[field]) / items.find(item => item[field]) reaches a
\* null item before an item whose field is truthy
FindThrows(items, field) ==
    \E i \in DOMAIN items :
        /\ PropThrows(items[i])
        /\ \A j \in 1..(i - 1) : ~Truthy(Prop(items[j], field))

\* items.find(item => item[field])?.[field]
FindProp(items, field) ==
    LET i == FirstIndex(items, LAMBDA item : Truthy(Prop(item, field)))
    IN IF i = 0 THEN Undefined ELSE Prop(items[i], field)

S3Throws(parsed) ==
    \E f \in DOMAIN contactFields : FindThrows(flat(parsed.jsonLd), contactFields[f])

checkS3(c) ==
    LET allSchemaItems == flat(c.parsed.jsonLd)
        foundContactFields ==
            Count(contactFields, LAMBDA field : Truthy(FindProp(allSchemaItems, field)))
    IN IF foundContactFields >= 3
       THEN createCheckResult("S3", "pass", <<"Found contact information fields">>)
       ELSE IF foundContactFields >= 1
            THEN createCheckResult("S3", "partial", <<"Found contact information fields">>)
            ELSE createCheckResult("S3", "fail",
                     <<"No contact information found in schema">>)

checkS4(c) ==
    LET foundRichContent ==
            Count(c.parsed.jsonLd, LAMBDA item : TypeFilter(item, richContentTypes))
    IN IF foundRichContent >= 2
       THEN createCheckResult("S4", "pass", <<"Found rich content schema types">>)
       ELSE IF foundRichContent = 1
            THEN createCheckResult("S4", "partial", <<"Found 1 rich content schema type">>)
            ELSE createCheckResult("S4", "fail", <<"No rich content schema found">>)

\* a plausible slip: the first H1 graded whenever there is at least one
checkC1_firstH1(c) ==
    IF Len(c.parsed.h1s) >= 1
    THEN IF c.parsed.h1 # <<>> /\ HasFact(c.parsed.h1, c.facts.locality)
         THEN createCheckResult("C1", "pass", <<"Single H1 found with locality: ">> \o c.parsed.h1)
         ELSE createCheckResult("C1", "partial",
                  <<"Single H1 found but no locality detected: ">> \o c.parsed.h1)
    ELSE createCheckResult("C1", "fail", <<"No H1 found">>)

checkC1(c) ==
    IF Len(c.parsed.h1s) = 1
    THEN IF c.parsed.h1 # <<>> /\ HasFact(c.parsed.h1, c.facts.locality)
         THEN createCheckResult("C1", "pass", <<"Single H1 found with locality: ">> \o c.parsed.h1)
         ELSE createCheckResult("C1", "partial",
                  <<"Single H1 found but no locality detected: ">> \o c.parsed.h1)
    ELSE IF Len(c.parsed.h1s) = 0
         THEN createCheckResult("C1", "fail", <<"No H1 found">>)
         ELSE createCheckResult("C1", "fail",
                  <<"Multiple H1s found (", ToString(Len(c.parsed.h1s)), "): ">>
                  \o join(c.parsed.h1s))

checkC2(c) ==
    LET headings == c.parsed.headings
        headingIssues ==
            {i \in 1..(Len(headings) - 1) : headings[i + 1].level > headings[i].level + 1}
        h2Count == Count(headings, LAMBDA h : h.level = 2)
        h3Count == Count(headings, LAMBDA h : h.level = 3)
        headingScore == (IF h2Count > 0 THEN 2 ELSE 0) + (IF h3Count > 0 THEN 1 ELSE 0)
                        + (IF headingIssues = {} THEN 2 ELSE 0)
    IN IF headingScore >= 4
       THEN createCheckResult("C2", "pass", <<"Good heading structure">>)
       ELSE IF headingScore >= 2
            THEN createCheckResult("C2", "partial", <<"Basic heading structure">>)
            ELSE createCheckResult("C2", "fail", <<"Poor heading structure">>)

checkC3(c) ==
    LET listCount ==
            Count(c.parsed.mainText.tags, LAMBDA tag : tag \in {"ul", "ol", "li", "table"})
    IN IF listCount >= 3
       THEN createCheckResult("C3", "pass", <<"Found list/table elements">>)
       ELSE IF listCount >= 1
            THEN createCheckResult("C3", "partial",
                     <<"Found list/table elements (could use more structure)">>)
            ELSE createCheckResult("C3", "fail", <<"No list or table elements found">>)

\* mainText.split(/\s+/).length: the empty string splits into one empty word
SplitLength(mainText) == IF mainText.count = 0 THEN 1 ELSE mainText.count

checkC4(c) ==
    LET headingsWithIds == Count(c.parsed.headings, LAMBDA h : h.id)
        requiredAnchors == IF SplitLength(c.parsed.mainText) > 800 THEN 3 ELSE 1
    IN IF headingsWithIds >= requiredAnchors
       THEN createCheckResult("C4", "pass", <<"Found headings with anchor IDs">>)
       ELSE IF headingsWithIds >= 1
            THEN createCheckResult("C4", "partial", <<"Found headings with anchor IDs">>)
            ELSE createCheckResult("C4", "fail", <<"No headings with anchor IDs found">>)

R1Throws(parsed) ==
    ~parsed.mainText.visibleDate /\ FindThrows(flat(parsed.jsonLd), "dateModified")

checkR1(c) ==
    IF c.parsed.mainText.visibleDate
    THEN createCheckResult("R1", "pass", <<"Found visible date information">>)
    ELSE LET dateModified == FindProp(flat(c.parsed.jsonLd), "dateModified")
         IN IF Truthy(dateModified)
            THEN IF dateModified.kind = "string" /\ WithinDays180(dateModified.s[1])
                 THEN createCheckResult("R1", "pass", <<"Schema shows recent update">>)
                 ELSE createCheckResult("R1", "fail", <<"Schema shows old update">>)
            ELSE createCheckResult("R1", "fail",
                     <<"No visible or schema date information found">>)

checkR2(c) ==
    IF c.sitemap.state = "ok"
    THEN IF c.sitemap.lastmod # ""
         THEN IF WithinDays180(c.sitemap.lastmod)
              THEN createCheckResult("R2", "pass", <<"Sitemap lastmod within 180 days">>)
              ELSE createCheckResult("R2", "fail",
                       <<"Sitemap lastmod older than 180 days">>)
         ELSE createCheckResult("R2", "partial", <<"Sitemap found but no lastmod date">>)
    ELSE IF c.sitemap.state = "notok"
         THEN createCheckResult("R2", "fail", <<"No sitemap.xml found">>)
         ELSE createCheckResult("R2", "fail", <<"Error checking sitemap">>)

N1Throws(parsed) == FindThrows(flat(parsed.jsonLd), "name")

checkN1(c) ==
    LET schemaName == FindProp(flat(c.parsed.jsonLd), "name")
        brandSources ==
            SelectSeq(<<StringOrUndefined(c.parsed.title), StringOrUndefined(c.parsed.h1),
                        schemaName>>, Truthy)
        brandConsistency ==
            \A i \in DOMAIN brandSources :
                brandSources[i].kind = "string" /\ HasFact(brandSources[i].s, c.facts.brand)
    IN IF brandConsistency /\ Len(brandSources) >= 2
       THEN createCheckResult("N1", "pass",
                <<"Brand consistent across title, H1, and schema">>)
       ELSE IF Len(brandSources) >= 2
            THEN createCheckResult("N1", "partial",
                     <<"Brand found in some but not all sources">>)
            ELSE createCheckResult("N1", "fail",
                     <<"Brand not consistently found across sources">>)

\* sameAsLinks.filter is not a function, or link.toLowerCase is not a function
N2Throws(parsed) ==
    \/ FindThrows(flat(parsed.jsonLd), "sameAs")
    \/ LET sameAs == FindProp(flat(parsed.jsonLd), "sameAs")
       IN /\ Truthy(sameAs)
          /\ \/ sameAs.kind # "array"
             \/ \E i \in DOMAIN sameAs.elems : sameAs.elems[i].kind # "string"

checkN2(c) ==
    LET sameAs == FindProp(flat(c.parsed.jsonLd), "sameAs")
        sameAsLinks == IF sameAs.kind = "array" THEN sameAs.elems ELSE <<>>
        socialLinks ==
            Count(sameAsLinks,
                  LAMBDA link : /\ link.kind = "string"
                                /\ \E i \in DOMAIN link.s : \E platform \in socialPlatforms :
                                       TokenIncludes(toLowerCase(link.s[i]), platform))
    IN IF socialLinks >= 2
       THEN createCheckResult("N2", "pass", <<"Found social profile links">>)
       ELSE IF socialLinks = 1
            THEN createCheckResult("N2", "partial", <<"Found 1 social profile link">>)
            ELSE createCheckResult("N2", "fail",
                     <<"No social profile links found in schema">>)

\* img.src.toLowerCase().includes('logo')
SrcHasLogo(src) == src \in {"/img/logo.png"}

checkN3(c) ==
    IF \E i \in DOMAIN c.parsed.images :
           AltText(c.parsed.images[i].alt).logo \/ SrcHasLogo(c.parsed.images[i].src)
    THEN createCheckResult("N3", "pass", <<"Logo visible on page">>)
    ELSE createCheckResult("N3", "fail", <<"No logo found visible on page">>)

checkN4(c) ==
    LET imgTags == c.renderedHtml.imgs
        totalImages == Len(imgTags)
        imagesWithBrandInfo ==
            Count(imgTags, LAMBDA img : /\ AltText(img.alt).captured
                                        /\ AltText(img.alt).keyword \/ AltText(img.alt).long)
    IN IF totalImages = 0
       THEN createCheckResult("N4", "pass", <<"No images found on page">>)
       ELSE IF imagesWithBrandInfo = totalImages
            THEN createCheckResult("N4", "pass",
                     <<"All images have brand/location info in alt text">>)
            ELSE IF 2 * imagesWithBrandInfo > totalImages
                 THEN createCheckResult("N4", "partial",
                          <<"Some images have brand/location info in alt text">>)
                 ELSE createCheckResult("N4", "fail",
                          <<"Only some images have brand/location info in alt text">>)

checkA1(c) ==
    LET a1ImgTags == c.renderedHtml.imgs
        a1TotalImages == Len(a1ImgTags)
        a1ImagesWithAlt ==
            Count(a1ImgTags, LAMBDA img : AltText(img.alt).captured /\ AltText(img.alt).trimmed)
    IN IF a1TotalImages = 0
       THEN createCheckResult("A1", "pass", <<"No images found on page">>)
       ELSE IF a1ImagesWithAlt = a1TotalImages
            THEN createCheckResult("A1", "pass", <<"All images have alt text">>)
            ELSE IF 2 * a1ImagesWithAlt > a1TotalImages
                 THEN createCheckResult("A1", "partial", <<"Some images have alt text">>)
                 ELSE createCheckResult("A1", "fail", <<"Only some images have alt text">>)

checkA2(c) ==
    LET tags == c.renderedParsed.mainText.tags
        forms == Count(tags, LAMBDA tag : tag = "form")
        labels == Count(tags, LAMBDA tag : tag = "label")
        inputs == Count(tags, LAMBDA tag : tag = "input")
    IN IF forms = 0
       THEN createCheckResult("A2", "pass", <<"No forms found on page">>)
       ELSE IF 10 * labels >= 8 * inputs
            THEN createCheckResult("A2", "pass", <<"Good form structure">>)
            ELSE IF labels > 0
                 THEN createCheckResult("A2", "partial", <<"Basic form structure">>)
                 ELSE createCheckResult("A2", "fail", <<"Poor form structure">>)

checkA3(c) ==
    IF SplitLength(c.renderedParsed.mainText) > 100
    THEN createCheckResult("A3", "pass", <<"Page has substantial text content">>)
    ELSE createCheckResult("A3", "fail", <<"Page has minimal text content">>)

\* link.text.length > 3 && !link.text.toLowerCase().includes('click here')
IsDescriptiveLink(text) == text \notin {"Go", "click here"}

checkA4(c) ==
    LET tags == c.renderedParsed.mainText.tags
        navElements == Count(tags, LAMBDA tag : tag = "nav")
        navListElements == Count(tags, LAMBDA tag : tag \in {"ul", "ol"})
        descriptiveLinks == Count(c.renderedParsed.links, IsDescriptiveLink)
    IN IF navElements > 0 /\ navListElements > 0
       THEN createCheckResult("A4", "pass", <<"Good navigation structure">>)
       ELSE IF 10 * descriptiveLinks > 7 * Len(c.renderedParsed.links)
            THEN createCheckResult("A4", "partial", <<"Basic navigation">>)
            ELSE createCheckResult("A4", "fail", <<"Poor navigation structure">>)

checkA5(c) ==
    LET videoTags == c.renderedHtml.videos
        totalVideos == Len(videoTags)
        hasTracks == Count(videoTags, LAMBDA hasKindCaptions : hasKindCaptions)
        hasTranscriptLinks == c.renderedHtml.transcript
        videosWithAccessibility ==
            IF hasTranscriptLinks /\ hasTracks < 1 THEN 1 ELSE hasTracks
    IN IF totalVideos = 0
       THEN createCheckResult("A5", "pass", <<"No videos found on page">>)
       ELSE IF videosWithAccessibility = totalVideos
            THEN createCheckResult("A5", "pass", <<"All videos have accessibility features">>)
            ELSE IF videosWithAccessibility > 0
                 THEN createCheckResult("A5", "partial",
                          <<"Some videos have accessibility features">>)
                 ELSE createCheckResult("A5", "fail",
                          <<"Videos found but no accessibility features detected">>)

\* runAllChecks, cut at its awaits: the results pushed before the fetch of
\* robots.txt, before renderRemotely, before the fetch of sitemap.xml, and
\* before it returns
ChecksBeforeRobots(c) == <<checkF1(c), checkF2(c)>>

ChecksBeforeRender(c) == <<checkF3(c), checkF4(c)>>

ChecksBeforeSitemap(c) ==
    <<checkF5(c), checkM1(c), checkM2(c), checkM3(c), checkM4(c), checkM5(c), checkM6(c), checkS1(c), checkS2(c), checkS3(c), checkS4(c),
      checkC1(c), checkC2(c), checkC3(c), checkC4(c), checkR1(c)>>

\* a plausible slip: the brand checks pushed before the sitemap check, N2 ahead
\* of N1
ChecksBeforeReturn_reordered(c) ==
    <<checkN2(c), checkN1(c), checkR2(c), checkN3(c), checkN4(c), checkA1(c), checkA2(c), checkA3(c), checkA4(c), checkA5(c)>>

ChecksBeforeReturn(c) ==
    <<checkR2(c), checkN1(c), checkN2(c), checkN3(c), checkN4(c), checkA1(c), checkA2(c), checkA3(c), checkA4(c), checkA5(c)>>

\* position, in ChecksBeforeSitemap, of the first evaluator that throws a
\* TypeError; 0 when none does
ThrowIndexBeforeSitemap(parsed) ==
    IF TypeFilterThrows(parsed.jsonLd, businessTypes) THEN 8
    ELSE IF TypeFilterThrows(parsed.jsonLd, contentTypes) THEN 9
    ELSE IF S3Throws(parsed) THEN 10
    ELSE IF TypeFilterThrows(parsed.jsonLd, richContentTypes) THEN 11
    ELSE IF R1Throws(parsed) THEN 16
    ELSE 0

\* position, in ChecksBeforeReturn, of the first evaluator that throws
ThrowIndexBeforeReturn(parsed) ==
    IF N1Throws(parsed) THEN 2
    ELSE IF N2Throws(parsed) THEN 3
    ELSE 0

\* the checks whose evaluator reads nothing of renderedData, renderedParsed or
\* renderedHtml
RawOnlyChecks == CheckIds \ {"F5", "N4", "A1", "A2", "A3", "A4", "A5"}
-----------------------------------------------------------------------------
(* Spec: one request through POST /api/score or POST /api/analyze (the     *)
(* later revision, without phases), one action per await                   *)

\* request bodies: not JSON at all, or an object with url ("" when absent) and
\* enableAiInsights ("absent", which defaults to true, or "false")
Urls == {"", "not a url", "https://acme.example/a"}

Bodies ==
    [json : {FALSE}, url : {""}, enableAiInsights : {"absent"}]
    \cup [json : {TRUE}, url : Urls, enableAiInsights : {"absent", "false"}]

NoScorecard == [rubric_version |-> "none"]

Failure(status, error) ==
    [state |-> "sent", status |-> status, success |-> FALSE, error |-> error,
     scorecard |-> NoScorecard, ai_insights |-> "absent"]

Success(scorecard, ai_insights) ==
    [state |-> "sent", status |-> 200, success |-> TRUE, error |-> "",
     scorecard |-> scorecard, ai_insights |-> ai_insights]

\* if (!url) ... try { new URL(url) } catch ...: the error answered, "" when the
\* url is accepted
ValidateUrl_requiredOnly(url) == IF url = "" THEN "URL is required" ELSE ""

ValidateUrl(url) ==
    IF url = "" THEN "URL is required"
    ELSE IF ~ParseURL(url).ok THEN "Invalid URL format"
         ELSE ""

\* the catch of POST: success:false, status 500, the error's message
CatchResponse_swallowed(message) == Success(NoScorecard, "null")

CatchResponse(message) == Failure(500, message)

\* the body the analyze route reads: the client's, or the one the score route
\* posts to it
AnalyzeBody ==
    IF request.endpoint = "score"
    THEN [json |-> TRUE, url |-> request.body.url, enableAiInsights |-> "false"]
    ELSE request.body

\* const { url, enableAiInsights = true } = body
enableAiInsights == AnalyzeBody.enableAiInsights # "false"

\* the analyze route answers: to the client, or to the score route's fetch
Reply(r) ==
    IF request.endpoint = "score"
    THEN analyzeData' = r /\ pc' = "relay" /\ UNCHANGED response
    ELSE response' = r /\ pc' = "done" /\ UNCHANGED analyzeData

Scorecard(categoryResults_, total_score_) ==
    [url |-> AnalyzeBody.url, final_url |-> rawData.finalUrl, rubric_version |-> "2.0.0",
     total_score |-> total_score_, categories |-> categoryResults_, phase |-> 1]

Init ==
    /\ gated = FALSE
    /\ phase = 1
    /\ checkResults = <<>>
    /\ categoryResults = <<>>
    /\ total_score = NoScore
    /\ pc = "idle"
    /\ request = NoRequest
    /\ env \in [CF_RENDER_ENDPOINT : BOOLEAN, OPENAI_API_KEY : BOOLEAN]
    /\ rubricData = CheckIds
    /\ worker = WorkerIdle
    /\ netCalls = {}
    /\ rawData = [state |-> "none"]
    /\ parsedHTML = [state |-> "none"]
    /\ detectedFacts = [state |-> "none"]
    /\ renderedData = [state |-> "none"]
    /\ robotsResponse = [state |-> "none"]
    /\ sitemapResponse = [state |-> "none"]
    /\ analyzeData = [state |-> "none"]
    /\ response = [state |-> "none"]

ScoreVars == <<gated, phase, checkResults, categoryResults, total_score>>

FetchVars == <<rawData, parsedHTML, detectedFacts, renderedData, robotsResponse,
               sitemapResponse>>

\* a client posts to one of the two routes
Receive(endpoint, body) ==
    /\ pc = "idle"
    /\ endpoint = "score" => body.enableAiInsights = "absent"
    /\ request' = [endpoint |-> endpoint, body |-> body]
    /\ pc' = "POST"
    /\ UNCHANGED <<ScoreVars, FetchVars, env, rubricData, worker, netCalls, analyzeData, response>>

\* score/route.ts POST up to its fetch of /api/analyze
ScorePOST ==
    /\ pc = "POST"
    /\ request.endpoint = "score"
    /\ IF ~request.body.json
       THEN /\ response' = Failure(500, "Unexpected token")
            /\ pc' = "done"
            /\ UNCHANGED netCalls
       ELSE IF ValidateUrl(request.body.url) # ""
            THEN /\ response' = Failure(400, ValidateUrl(request.body.url))
                 /\ pc' = "done"
                 /\ UNCHANGED netCalls
            ELSE /\ netCalls' = netCalls \cup {"analyze"}
                 /\ pc' = "internal"
                 /\ UNCHANGED response
    /\ UNCHANGED <<ScoreVars, FetchVars, env, rubricData, worker, request, analyzeData>>

\* score/route.ts: the fetch of /api/analyze rejects, or its body is not JSON
InternalCallFails ==
    /\ pc = "internal"
    /\ response' = Failure(500, "Internal analysis service unavailable")
    /\ pc' = "done"
    /\ UNCHANGED <<ScoreVars, FetchVars, env, rubricData, worker, request, netCalls, analyzeData>>

\* analyze POST up to its await of fetchRaw
AnalyzePOST ==
    /\ \/ pc = "POST" /\ request.endpoint = "analyze"
       \/ pc = "internal"
    /\ IF ~AnalyzeBody.json
       THEN Reply(CatchResponse("Unexpected token")) /\ UNCHANGED netCalls
       ELSE IF ValidateUrl(AnalyzeBody.url) # ""
            THEN Reply(Failure(400, ValidateUrl(AnalyzeBody.url))) /\ UNCHANGED netCalls
            ELSE /\ netCalls' = netCalls \cup {"raw"}
                 /\ pc' = "fetchRaw"
                 /\ UNCHANGED <<analyzeData, response>>
    /\ UNCHANGED <<ScoreVars, FetchVars, env, rubricData, worker, request>>

fetchRawErrors == {"Request timeout (10s limit)", "Failed to fetch: fetch failed"}

\* fetchRaw throws: the fetch rejected, or the 10 s abort fired
FetchRawThrows(message) ==
    /\ pc = "fetchRaw"
    /\ rawData' = [state |-> "failed", message |-> message]
    /\ Reply(CatchResponse(message))
    /\ UNCHANGED <<ScoreVars, parsedHTML, detectedFacts, renderedData, robotsResponse,
                   sitemapResponse, env, rubricData, worker, request, netCalls>>

\* what the page's server answers: any document with 200, or the first with 404
RawResponses ==
    [html : Pages, status : {200}] \cup [html : {PageOrder[1]}, status : {404}]

\* fetchRaw resolves; parseHTML, extractFacts, and runAllChecks up to its fetch
\* of robots.txt
FetchRawResolves(html, status) ==
    /\ pc = "fetchRaw"
    /\ rawData' = [state |-> "ok", html |-> html, finalUrl |-> FinalUrl, status |-> status]
    /\ parsedHTML' = parseHTML(html)
    /\ detectedFacts' = IF extractFactsThrows(parsedHTML') THEN detectedFacts
                        ELSE extractFacts(parsedHTML')
    /\ IF extractFactsThrows(parseHTML(html))
       THEN /\ Reply(CatchResponse("Cannot read properties of null"))
            /\ UNCHANGED <<checkResults, netCalls>>
       ELSE /\ \E c \in {Context(rawData', renderedData, robotsResponse, sitemapResponse)} :
                   checkResults' = ChecksBeforeRobots(c)
            /\ netCalls' = netCalls \cup {"robots"}
            /\ pc' = "robots"
            /\ UNCHANGED <<analyzeData, response>>
    /\ UNCHANGED <<gated, phase, categoryResults, total_score, renderedData, robotsResponse,
                   sitemapResponse, env, rubricData, worker, request>>

Line(field, value) == [field |-> field, value |-> value]

\* robots.txt bodies: an empty Disallow; a GPTBot group that only allows,
\* followed by a Disallow of another path
RobotsTexts ==
    {<<Line("User-agent", <<"*">>), Line("Disallow", <<>>)>>,
     <<Line("User-agent", <<"GPTBot">>), Line("Allow", <<"/">>),
       Line("User-agent", <<"*">>), Line("Disallow", <<"/", "b">>)>>,
     <<Line("User-agent", <<"*">>), Line("Disallow", <<"/", "b">>)>>,
     <<Line("User-agent", <<"*">>), Line("Disallow", <<>>),
       Line("User-agent", <<"GPTBot">>), Line("Allow", <<"/">>)>>}

RobotsOutcomes ==
    {[state |-> "threw", text |-> <<>>], [state |-> "notok", text |-> <<>>]}
    \cup [state : {"ok"}, text : RobotsTexts]

renderErrors ==
    {"Failed to render: Render failed: 500", "Failed to render: Unexpected token",
     "Failed to render: Invalid response from render service",
     "JS rendering timeout (15s limit)", "Failed to render: fetch failed"}

\* runAllChecks from the settling of renderRemotely (F5) to its fetch of
\* sitemap.xml, or to the TypeError that ends the request
AfterRender(results, renderedData_, robots_, netCalls_) ==
    \E c \in {Context(rawData, renderedData_, robots_, sitemapResponse)} :
    \E t \in {ThrowIndexBeforeSitemap(c.parsed)} :
       IF t # 0
       THEN /\ checkResults' = results \o SubSeq(ChecksBeforeSitemap(c), 1, t - 1)
            /\ netCalls' = netCalls_
            /\ Reply(CatchResponse("Cannot read properties of null"))
       ELSE /\ checkResults' = results \o ChecksBeforeSitemap(c)
            /\ netCalls' = netCalls_ \cup {"sitemap"}
            /\ pc' = "sitemap"
            /\ UNCHANGED <<analyzeData, response>>

\* the fetch of robots.txt settles: F3, F4, then renderRemotely, which throws at
\* once when CF_RENDER_ENDPOINT is not set
RobotsSettles(outcome) ==
    /\ pc = "robots"
    /\ robotsResponse' = outcome
    /\ \E c \in {Context(rawData, renderedData, outcome, sitemapResponse)} :
       \E results \in {checkResults \o ChecksBeforeRender(c)} :
          IF env.CF_RENDER_ENDPOINT
          THEN /\ checkResults' = results
               /\ netCalls' = netCalls \cup {"render"}
               /\ pc' = "render"
               /\ UNCHANGED <<renderedData, analyzeData, response>>
          ELSE /\ renderedData' =
                      [state |-> "failed",
                       message |-> "CF_RENDER_ENDPOINT environment variable not set"]
               /\ AfterRender(results, renderedData', outcome, netCalls)
    /\ UNCHANGED <<gated, phase, categoryResults, total_score, rawData, parsedHTML,
                   detectedFacts, sitemapResponse,
                   env, rubricData, worker, request>>

RenderOutcomes ==
    [state : {"failed"}, message : renderErrors]
    \cup [state : {"ok"}, html : Pages, finalUrl : {FinalUrl}]

\* renderRemotely settles
RenderSettles(outcome) ==
    /\ pc = "render"
    /\ renderedData' = outcome
    /\ AfterRender(checkResults, outcome, robotsResponse, netCalls)
    /\ UNCHANGED <<gated, phase, categoryResults, total_score, rawData, parsedHTML,
                   detectedFacts, robotsResponse,
                   sitemapResponse, env, rubricData, worker, request>>

SitemapOutcomes ==
    {[state |-> "threw", lastmod |-> ""], [state |-> "notok", lastmod |-> ""]}
    \cup [state : {"ok"}, lastmod : {"", "2026-10-01", "2020-01-01", "yesterday"}]

\* the fetch of sitemap.xml settles: R2 and the rest of runAllChecks, then POST's
\* aggregation and scorecard, up to generateAIInsights or the response
SitemapSettles(outcome) ==
    /\ pc = "sitemap"
    /\ sitemapResponse' = outcome
    /\ \E c \in {Context(rawData, renderedData, robotsResponse, outcome)} :
       \E t \in {ThrowIndexBeforeReturn(c.parsed)} :
       \E results \in {checkResults \o ChecksBeforeReturn(c)} :
       \E categories \in {[i \in DOMAIN POSTCategories |->
                               CategoryScore(POSTCategories[i], results)]} :
       \E total \in {TotalScore(categories)} :
          IF t # 0
          THEN /\ checkResults' = checkResults \o SubSeq(ChecksBeforeReturn(c), 1, t - 1)
               /\ Reply(CatchResponse("sameAsLinks.filter is not a function"))
               /\ UNCHANGED <<categoryResults, total_score, netCalls>>
          ELSE /\ checkResults' = results
               /\ categoryResults' = categories
               /\ total_score' = total
               /\ IF enableAiInsights /\ env.OPENAI_API_KEY
                  THEN /\ netCalls' = netCalls \cup {"ai"}
                       /\ pc' = "ai"
                       /\ UNCHANGED <<analyzeData, response>>
                  ELSE /\ Reply(Success(Scorecard(categories, total), "null"))
                       /\ UNCHANGED netCalls
    /\ UNCHANGED <<gated, phase, rawData, parsedHTML, detectedFacts, renderedData, robotsResponse, env, rubricData, worker, request>>

\* a plausible slip: the throw of generateAIInsights reaches POST's catch
AISettles_failureFatal(ok) ==
    /\ pc = "ai"
    /\ IF ok
       THEN Reply(Success(Scorecard(categoryResults, total_score), "insights"))
       ELSE Reply(CatchResponse("Failed to generate AI insights"))
    /\ UNCHANGED <<ScoreVars, FetchVars, env, rubricData, worker, request, netCalls>>

\* generateAIInsights settles; a throw is caught and leaves aiInsights null
AISettles(ok) ==
    /\ pc = "ai"
    /\ Reply(Success(Scorecard(categoryResults, total_score),
                     IF ok THEN "insights" ELSE "null"))
    /\ UNCHANGED <<ScoreVars, FetchVars, env, rubricData, worker, request, netCalls>>

\* score/route.ts: the analyze route has answered the internal call
ScoreRelay ==
    /\ pc = "relay"
    /\ response' =
           IF ~analyzeData.success
           THEN Failure(500, IF analyzeData.error # "" THEN analyzeData.error
                             ELSE "Analysis failed")
           ELSE Success(analyzeData.scorecard, "absent")
    /\ pc' = "done"
    /\ UNCHANGED <<ScoreVars, FetchVars, env, rubricData, worker, request, netCalls, analyzeData>>

Next ==
    \/ \E endpoint \in {"analyze", "score"}, body \in Bodies : Receive(endpoint, body)
    \/ ScorePOST
    \/ InternalCallFails
    \/ AnalyzePOST
    \/ \E message \in fetchRawErrors : FetchRawThrows(message)
    \/ \E r \in RawResponses : FetchRawResolves(r.html, r.status)
    \/ \E outcome \in RobotsOutcomes : RobotsSettles(outcome)
    \/ \E outcome \in RenderOutcomes : RenderSettles(outcome)
    \/ \E outcome \in SitemapOutcomes : SitemapSettles(outcome)
    \/ \E ok \in BOOLEAN : AISettles(ok)
    \/ ScoreRelay

Spec == Init /\ [][Next]_vars

-----------------------------------------------------------------------------
(* Properties of the request handlers                                      *)

\* runAllChecks as a whole, for a page none of whose evaluators throws
runAllChecks(c) ==
    ChecksBeforeRobots(c) \o ChecksBeforeRender(c) \o ChecksBeforeSitemap(c)
        \o ChecksBeforeReturn(c)

\* the (id, status) pairs of the results of the checks that read only the raw
\* fetch
RawOnlyStatuses(results) ==
    {<<results[i].id, results[i].status>> :
        i \in {j \in DOMAIN results : results[j].id \in RawOnlyChecks}}

\* the answer of the analyze route, once it has given one
AnalyzeAnswer ==
    IF request # NoRequest /\ request.endpoint = "score" THEN analyzeData ELSE response

\* C8: a request to the analyze or the score endpoint whose url is missing or
\* does not parse as an absolute URL never has a network call issued for it
\* (no internal call, raw fetch, robots.txt, render, sitemap.xml or AI request),
\* and the answer it gets is success:false with status 400.
C8_InvalidUrlNoNetworkCall ==
    (request # NoRequest /\ request.body.json
        /\ (request.body.url = "" \/ ~ParseURL(request.body.url).ok))
    => /\ netCalls = {}
       /\ pc \in {"POST", "done"}
       /\ rawData.state = "none"
       /\ pc = "done" => /\ response.state = "sent"
                         /\ ~response.success
                         /\ response.status = 400
                         /\ response.error \in {"URL is required", "Invalid URL format"}

\* a url that is not empty and does not parse has been answered by the score
\* route
C8_Witness ==
    /\ pc = "done"
    /\ request.endpoint = "score"
    /\ request.body.json
    /\ request.body.url = "not a url"
    /\ response.state = "sent"
    /\ ~response.success
    /\ netCalls = {}

\* C9: once fetchRaw has thrown (network error or the 10 s abort) no check
\* result and no category result exists for the request, no further network call
\* is issued, and the answer of the analyze route is success:false with an error
\* string and no scorecard.
C9_RawFetchFailureIsFatal ==
    rawData.state = "failed"
    => /\ checkResults = <<>>
       /\ categoryResults = <<>>
       /\ total_score = NoScore
       /\ netCalls \subseteq {"analyze", "raw"}
       /\ pc \in {"relay", "done"}
       /\ AnalyzeAnswer.state = "sent"
       /\ ~AnalyzeAnswer.success
       /\ AnalyzeAnswer.error = rawData.message
       /\ AnalyzeAnswer.error # ""
       /\ AnalyzeAnswer.scorecard = NoScorecard
       /\ pc = "done" => /\ ~response.success
                         /\ response.scorecard = NoScorecard

\* the 10 s abort of the raw fetch has been answered by the analyze route
C9_Witness ==
    /\ pc = "done"
    /\ request.endpoint = "analyze"
    /\ rawData.state = "failed"
    /\ rawData.message = "Request timeout (10s limit)"
    /\ netCalls = {"raw"}
    /\ response.state = "sent"
    /\ ~response.success

\* C10: when renderRemotely has failed (missing endpoint, non-2xx, malformed
\* JSON, missing finalUrl/html, or the 15 s abort) the analysis still answers
\* success:true with a scorecard, and every check that needs only the raw fetch
\* has the status it has when rendering succeeds.
C10_RenderFailureStillSucceeds ==
    (renderedData.state = "failed" /\ AnalyzeAnswer.state = "sent")
    => /\ AnalyzeAnswer.success
       /\ AnalyzeAnswer.scorecard # NoScorecard
       /\ \A rendered \in {o \in RenderOutcomes : o.state = "ok"} :
             RawOnlyStatuses(checkResults) =
                 RawOnlyStatuses(runAllChecks(Context(rawData, rendered, robotsResponse,
                                                      sitemapResponse)))

\* the checks that read the rendered page
RenderedChecks == {"F5", "N4", "A1", "A2", "A3", "A4", "A5"}

\* C11: when rendering has failed, every result of a check that depends on
\* rendered content (F5, N4, A1, A2, A3, A4, A5) has status fail or na and
\* evidence stating that rendering failed.
C11_RenderedChecksDegrade ==
    renderedData.state = "failed"
    => \A i \in DOMAIN checkResults :
          checkResults[i].id \in RenderedChecks
          => /\ checkResults[i].status \in {"fail", "na"}
             /\ checkResults[i].evidence[1] = "JS rendering failed: "

\* C12: once the robots.txt request has thrown (a timeout included) or returned
\* a non-success status, the F3 result is pass with the evidence of the default
\* allow, and the evaluator has gone on to the checks after it (F4 follows F3;
\* the request is not left waiting on robots.txt and is not answered with an
\* error of the robots.txt request).
C12_RobotsFailureDefaultsToAllow ==
    robotsResponse.state \in {"threw", "notok"}
    => /\ pc # "robots"
       /\ Len(checkResults) >= 4
       /\ checkResults[3].id = "F3"
       /\ checkResults[3].status = "pass"
       /\ checkResults[3].evidence = <<"No robots.txt found (default allow)">>
       /\ checkResults[3].score = 2 * WeightOf("F3")
       /\ checkResults[4].id = "F4"
       /\ (AnalyzeAnswer.state = "sent" /\ AnalyzeAnswer.success)
          => Len(checkResults) = Cardinality(CheckIds)

\* the robots.txt request threw and the analysis was answered with a scorecard
\* holding every check
C12_Witness ==
    /\ robotsResponse.state = "threw"
    /\ pc = "done"
    /\ response.state = "sent"
    /\ response.success
    /\ Len(checkResults) = Cardinality(CheckIds)
    /\ response.scorecard.categories[1].checks[3].status = "pass"

\* what the code's scheduling guarantees: the handlers' own steps run; fetchRaw
\* settles (its AbortController fires after 10 s), renderRemotely settles (15 s
\* abort), the AI call and the score route's internal call settle.  The fetches
\* of robots.txt and sitemap.xml carry no signal and no timer: nothing in the
\* code makes them settle.
Fairness ==
    /\ WF_vars(ScorePOST)
    /\ WF_vars(AnalyzePOST)
    /\ WF_vars(\E message \in fetchRawErrors : FetchRawThrows(message))
    /\ WF_vars(\E r \in RawResponses : FetchRawResolves(r.html, r.status))
    /\ WF_vars(\E outcome \in RenderOutcomes : RenderSettles(outcome))
    /\ WF_vars(\E ok \in BOOLEAN : AISettles(ok))
    /\ WF_vars(ScoreRelay)

FairSpec == Init /\ [][Next]_vars /\ Fairness

\* C13: every analysis whose raw fetch has completed is eventually answered,
\* even if the robots.txt or the sitemap.xml server never answers (each of the
\* two lookups being bounded by a timeout of its own).
C13_AnalysisEventuallyAnswered ==
    (rawData.state = "ok") ~> (pc = "done")

\* the R2 results pushed so far (at most one)
R2Results == {checkResults[i] : i \in {j \in DOMAIN checkResults : checkResults[j].id = "R2"}}

\* C14: the R2 result is partial when sitemap.xml was retrieved and its first
\* <lastmod> is absent or does not parse as a date, and fail when no sitemap was
\* found (non-success response or lookup error).
C14_SitemapFreshnessStatus ==
    \A r \in R2Results :
       /\ (sitemapResponse.state = "ok"
           /\ (sitemapResponse.lastmod = "" \/ ~NewDate(sitemapResponse.lastmod).valid))
          => r.status = "partial"
       /\ sitemapResponse.state \in {"notok", "threw"} => r.status = "fail"

\* C15: generateAIInsights is called only once the scorecard exists (all seven
\* category results and the total), and whatever the call does, the answer is
\* success:true carrying that scorecard; a call that throws only leaves
\* ai_insights null.
C15_AIFailureKeepsScorecard ==
    "ai" \in netCalls
    => /\ Len(categoryResults) = Len(POSTCategories)
       /\ total_score # NoScore
       /\ pc \in {"ai", "done"}
       /\ pc = "done" => /\ response.state = "sent"
                         /\ response.success
                         /\ response.status = 200
                         /\ response.scorecard = Scorecard(categoryResults, total_score)
                         /\ response.ai_insights \in {"insights", "null"}

\* the AI call threw and the analysis was answered
C15_Witness ==
    /\ "ai" \in netCalls
    /\ pc = "done"
    /\ response.state = "sent"
    /\ response.success
    /\ response.ai_insights = "null"
    /\ response.scorecard.total_score > 0

-----------------------------------------------------------------------------
(* SpecLoad: the process started with a rubric.v2.0.json that may lack      *)
(* check ids the evaluators use                                             *)

\* rubric.v2.0.json files a deployment may carry: the full rubric, the rubric of
\* the 24 checks of the first table, and the full rubric less one check
RubricFiles == {CheckIds, DOMAIN CHECK_INFO} \cup {CheckIds \ {id} : id \in PoolIds}

\* createCheckResult: if (!check) throw new Error(`Check ${id} not found in rubric`)
createCheckResultThrows(id) == id \notin rubricData

InitLoad ==
    /\ gated = FALSE
    /\ phase = 1
    /\ checkResults = <<>>
    /\ categoryResults = <<>>
    /\ total_score = NoScore
    /\ pc = "unloaded"
    /\ request = NoRequest
    /\ env = [CF_RENDER_ENDPOINT |-> FALSE, OPENAI_API_KEY |-> FALSE]
    /\ rubricData \in RubricFiles
    /\ worker = WorkerIdle
    /\ netCalls = {}
    /\ rawData = [state |-> "none"]
    /\ parsedHTML = [state |-> "none"]
    /\ detectedFacts = [state |-> "none"]
    /\ renderedData = [state |-> "none"]
    /\ robotsResponse = [state |-> "none"]
    /\ sitemapResponse = [state |-> "none"]
    /\ analyzeData = [state |-> "none"]
    /\ response = [state |-> "none"]

\* the module is evaluated: export const rubric = rubricData as Rubric
LoadRubric ==
    /\ pc = "unloaded"
    /\ pc' = "idle"
    /\ UNCHANGED <<ScoreVars, FetchVars, request, env, rubricData, worker, netCalls, analyzeData,
                   response>>

\* POST for an accepted url whose page was fetched: runAllChecks pushes
\* createCheckResult(id, ...) for the ids of RunOrder until one throws, which
\* POST's catch answers; otherwise the scorecard
AnalyzeLoaded(seed) ==
    /\ pc = "POST"
    /\ rawData' = [state |-> "ok", html |-> PageOrder[1], finalUrl |-> FinalUrl,
                   status |-> 200]
    /\ parsedHTML' = parseHTML(PageOrder[1])
    /\ detectedFacts' = extractFacts(parsedHTML')
    /\ netCalls' = netCalls \cup {"raw"}
    /\ pc' = "done"
    /\ LET unknown == {i \in DOMAIN RunOrder : createCheckResultThrows(RunOrder[i])}
           results == [i \in DOMAIN RunOrder |->
                          createCheckResult(RunOrder[i], SeedStatus(seed, i), <<>>)]
           categories == MapSeq(POSTCategories, LAMBDA c : CategoryScore(c, results))
       IN IF unknown # {}
          THEN /\ checkResults' = SubSeq(results, 1, Min(unknown) - 1)
               /\ response' = CatchResponse("Check " \o RunOrder[Min(unknown)]
                                                \o " not found in rubric")
               /\ UNCHANGED <<categoryResults, total_score>>
          ELSE /\ checkResults' = results
               /\ categoryResults' = categories
               /\ total_score' = TotalScore(categories)
               /\ response' =
                      Success([url |-> request.body.url, final_url |-> FinalUrl,
                               rubric_version |-> "2.0.0",
                               total_score |-> TotalScore(categories),
                               categories |-> categories, phase |-> 1], "null")
    /\ UNCHANGED <<gated, phase, renderedData, robotsResponse, sitemapResponse, request,
                   env, rubricData, worker, analyzeData>>

NextLoad ==
    \/ LoadRubric
    \/ \E body \in {b \in Bodies : b.json /\ ValidateUrl(b.url) = ""} :
          Receive("analyze", body)
    \/ \E seed \in 0..(Pow(4, StatusPeriod) - 1) : AnalyzeLoaded(seed)

SpecLoad == InitLoad /\ [][NextLoad]_vars

\* C16: a check id that an evaluator uses and the rubric lacks is a
\* configuration error caught when the rubric is loaded, so no analysis request
\* is answered at request time with a failure for such a rubric.
C16_UnknownCheckIdNotPerRequest ==
    (\E i \in DOMAIN RunOrder : RunOrder[i] \notin rubricData)
    => ~(response.state = "sent" /\ ~response.success)

-----------------------------------------------------------------------------
(* C17: order of the categories and of the check results of a scorecard    *)

-----------------------------------------------------------------------------
(* SpecParse: parseHTML and extractFacts applied to documents whose        *)
(* JSON-LD script blocks are drawn from a pool                             *)

MaxScripts == 3

ChicagoItem ==
    JObject(("@type" :> JString(<<"LocalBusiness">>))
         @@ ("address" :> JObject(("streetAddress" :> JString(<<"Main">>))
                               @@ ("addressLocality" :> JString(<<"Chicago">>))))
         @@ ("geo" :> JObject(("latitude" :> JString(<<"41">>)))))

BostonItem ==
    JObject(("@type" :> JString(<<"Organization">>))
         @@ ("address" :> JObject(("addressLocality" :> JString(<<"Boston">>)))))

GeoItem ==
    JObject(("@type" :> JString(<<"Place">>))
         @@ ("geo" :> JObject(("latitude" :> JString(<<"42">>)))))

\* the contents of a script block: unparsable, an object, an array of objects,
\* an empty array
ScriptPool ==
    {NotJSON, ChicagoItem, BostonItem, JArray(<<GeoItem, BostonItem>>), JArray(<<>>)}

ScriptLists == UNION {[1..n -> ScriptPool] : n \in 0..MaxScripts}

\* parseHTML(rawData.html) for a document with the given script blocks
ParseHTML(scripts) ==
    /\ pc = "idle"
    /\ rawData' = [state |-> "ok", html |-> [PlainPage EXCEPT !.jsonLdScripts = scripts],
                   finalUrl |-> FinalUrl, status |-> 200]
    /\ parsedHTML' = parseHTML(rawData'.html)
    /\ pc' = "parsed"
    /\ UNCHANGED <<ScoreVars, detectedFacts, renderedData, robotsResponse, sitemapResponse,
                   request, env, rubricData, worker, netCalls, analyzeData, response>>

\* extractFacts(parsed)
ExtractFacts ==
    /\ pc = "parsed"
    /\ ~extractFactsThrows(parsedHTML)
    /\ detectedFacts' = extractFacts(parsedHTML)
    /\ pc' = "facts"
    /\ UNCHANGED <<ScoreVars, rawData, parsedHTML, renderedData, robotsResponse,
                   sitemapResponse, request, env, rubricData, worker, netCalls, analyzeData,
                   response>>

NextParse ==
    \/ \E scripts \in ScriptLists : ParseHTML(scripts)
    \/ ExtractFacts

SpecParse == Init /\ [][NextParse]_vars

\* the number of entries a script block contributes
EntriesOf(script) ==
    CASE script.kind = "invalid" -> 0
      [] script.kind = "array" -> Len(script.elems)
      [] OTHER -> 1

\* the number of entries contributed by the blocks before the i-th
EntriesBefore(scripts, i) == SumSeq([k \in 1..(i - 1) |-> EntriesOf(scripts[k])])

\* C18: jsonLd holds, in document order, each parsable block's value, the
\* elements of a block that is an array in its place, and nothing for a block
\* that does not parse; no entry of a parsable block is lost, whatever the
\* other blocks are
C18_JsonLdMergedFlatInOrder ==
    pc \in {"parsed", "facts"}
    => LET scripts == rawData.html.jsonLdScripts
           jsonLd == parsedHTML.jsonLd
       IN  /\ Len(jsonLd) = EntriesBefore(scripts, Len(scripts) + 1)
           /\ Len(jsonLd) >= Cardinality({i \in DOMAIN scripts : EntriesOf(scripts[i]) > 0})
           /\ \A i \in DOMAIN scripts :
                 CASE scripts[i].kind = "invalid" -> TRUE
                   [] scripts[i].kind = "array" ->
                        \A j \in DOMAIN scripts[i].elems :
                           jsonLd[EntriesBefore(scripts, i) + j] = scripts[i].elems[j]
                   [] OTHER -> jsonLd[EntriesBefore(scripts, i) + 1] = scripts[i]

\* an unparsable block between an object block and an array block
C18_Witness ==
    /\ pc = "parsed"
    /\ Len(rawData.html.jsonLdScripts) = 3
    /\ rawData.html.jsonLdScripts[1].kind = "object"
    /\ rawData.html.jsonLdScripts[2].kind = "invalid"
    /\ rawData.html.jsonLdScripts[3].kind = "array"
    /\ Len(parsedHTML.jsonLd) = 3

-----------------------------------------------------------------------------
(* C19: which item gives facts.address and facts.geo                       *)

\* C19: facts.address is built from the first item of jsonLd that has an
\* address, and facts.geo from the first item that has a geo
C19_FirstAddressAndGeoWin ==
    pc = "facts"
    => LET jsonLd == parsedHTML.jsonLd
           a == FirstIndex(jsonLd, LAMBDA item : Truthy(Prop(item, "address")))
           g == FirstIndex(jsonLd, LAMBDA item : Truthy(Prop(item, "geo")))
       IN  /\ a # 0 => /\ detectedFacts.address.kind = "object"
                       /\ detectedFacts.address.fields["locality"]
                            = Prop(Prop(jsonLd[a], "address"), "addressLocality")
                       /\ detectedFacts.address.fields["street"]
                            = Prop(Prop(jsonLd[a], "address"), "streetAddress")
           /\ g # 0 => detectedFacts.geo = Prop(jsonLd[g], "geo")

-----------------------------------------------------------------------------
(* C20: when F3 reports the page as blocked                                *)

\* robots.txt has a Disallow line whose value is the path itself or "/"
DisallowsExactly(robotsText, path) ==
    \E i \in DOMAIN robotsText :
       /\ robotsText[i].field = "Disallow"
       /\ robotsText[i].value \in {path, <<"/">>}

\* C20: with a robots.txt retrieved, F3 reports the page path as blocked
\* exactly when a Disallow line names the page's path or "/"; with only
\* Disallow lines for other paths, and no GPTBot stanza, F3 passes
C20_BlockedIffExactDisallow ==
    (robotsResponse.state = "ok" /\ Len(checkResults) >= 3)
    => LET path == ParseURL(rawData.finalUrl).pathname
           exact == DisallowsExactly(robotsResponse.text, path)
       IN  /\ checkResults[3].id = "F3"
           /\ checkResults[3].evidence = <<"Page path is blocked in robots.txt">> <=> exact
           /\ (~exact /\ ~gptBotBlocked(robotsResponse.text))
                 => checkResults[3].status = "pass"

-----------------------------------------------------------------------------
(* C21: when F3 reports a GPTBot block                                     *)

\* a User-agent: GPTBot line with a Disallow line after it
DisallowFollowsGPTBot(robotsText) ==
    \E i, j \in DOMAIN robotsText :
       /\ i < j
       /\ robotsText[i].field = "User-agent"
       /\ IsPrefix(<<"GPTBot">>, robotsText[i].value)
       /\ robotsText[j].field = "Disallow"

\* C21: with a robots.txt retrieved, F3 reports GPTBot as blocked only when
\* a Disallow line follows a User-agent: GPTBot line; a Disallow line that
\* only precedes the GPTBot stanza does not make F3 report a GPTBot block
C21_GPTBotBlockNeedsFollowingDisallow ==
    (robotsResponse.state = "ok" /\ Len(checkResults) >= 3)
    => (checkResults[3].evidence = <<"GPTBot is blocked in robots.txt">>
          => DisallowFollowsGPTBot(robotsResponse.text))

-----------------------------------------------------------------------------
(* C22: the status of the parity check F5 once rendering succeeded         *)

\* the status the three-tier rule gives: pass when the H1 matches, the
\* similarity exceeds 0.8 and the image and link counts do not diverge;
\* else partial when the H1 matches or the similarity exceeds 0.6; else fail
ParityStatus(h1Match, similarity, diverges) ==
    IF h1Match /\ 10 * similarity.num > 8 * similarity.den /\ ~diverges THEN "pass"
    ELSE IF h1Match \/ 10 * similarity.num > 6 * similarity.den THEN "partial"
    ELSE "fail"

\* C22: when renderRemotely resolved, F5's status is the one the three-tier
\* rule gives for the raw and the rendered document
C22_ParityThreeTiers ==
    (renderedData.state = "ok" /\ rawData.state = "ok" /\ Len(checkResults) >= 5)
    => LET raw == parseHTML(rawData.html)
           rendered == parseHTML(renderedData.html)
       IN  /\ checkResults[5].id = "F5"
           /\ checkResults[5].status
                = ParityStatus(raw.h1 = rendered.h1,
                               calculateTextSimilarity(raw.mainText, rendered.mainText),
                               \/ Abs(Len(rawData.html.imgs) - Len(renderedData.html.imgs)) > 2
                               \/ Abs(Len(raw.links) - Len(rendered.links)) > 5)

-----------------------------------------------------------------------------
(* C23: the checks that grade a fraction of N items                        *)

\* the rule for N items of which k satisfy the property
FractionStatus(N, k) ==
    IF N = 0 THEN "pass"
    ELSE IF k = N THEN "pass"
    ELSE IF 2 * k > N THEN "partial"
    ELSE "fail"

\* the result pushed for a check id, once runAllChecks has returned
ResultOf(id) ==
    checkResults[CHOOSE i \in DOMAIN checkResults : checkResults[i].id = id]

\* the number of videos counted as accessible: those with a caption track,
\* at least one when the document mentions a transcript
AccessibleVideos(html) ==
    LET tracks == Cardinality({i \in DOMAIN html.videos : html.videos[i]})
    IN  IF html.transcript /\ tracks < 1 THEN 1 ELSE tracks

\* C23: N4, A1 and A5 grade their N items, k of them satisfying the
\* property, by one rule: pass for N = 0 and for k = N, partial for k > N/2,
\* fail otherwise
C23_FractionChecksShareRule ==
    (pc = "done" /\ Len(checkResults) = Cardinality(CheckIds))
    => LET html == RenderedHtml(rawData, renderedData)
           brand == {i \in DOMAIN html.imgs :
                        /\ AltText(html.imgs[i].alt).captured
                        /\ AltText(html.imgs[i].alt).keyword \/ AltText(html.imgs[i].alt).long}
           withAlt == {i \in DOMAIN html.imgs :
                          /\ AltText(html.imgs[i].alt).captured
                          /\ AltText(html.imgs[i].alt).trimmed}
       IN  /\ ResultOf("N4").status = FractionStatus(Len(html.imgs), Cardinality(brand))
           /\ ResultOf("A1").status = FractionStatus(Len(html.imgs), Cardinality(withAlt))
           /\ ResultOf("A5").status
                = FractionStatus(Len(html.videos), AccessibleVideos(html))

-----------------------------------------------------------------------------
(* C24: the status of the brand-consistency check N1                       *)

\* the non-empty ones among title, H1 and schema name
BrandSourcesOf(parsed) ==
    SelectSeq(<<StringOrUndefined(parsed.title), StringOrUndefined(parsed.h1),
                FindProp(flat(parsed.jsonLd), "name")>>, Truthy)

\* the sources that contain the brand, whatever the case of the letters
SourcesWithBrand(parsed, facts) ==
    {i \in DOMAIN BrandSourcesOf(parsed) :
        /\ BrandSourcesOf(parsed)[i].kind = "string"
        /\ HasFact(BrandSourcesOf(parsed)[i].s, facts.brand)}

\* N1 is pass exactly when there are at least two non-empty sources and all
\* of them contain the brand
N1PassRule ==
    (Len(checkResults) >= 22 /\ ~N1Throws(parsedHTML))
    => /\ checkResults[22].id = "N1"
       /\ checkResults[22].status = "pass"
            <=> /\ Len(BrandSourcesOf(parsedHTML)) >= 2
                /\ SourcesWithBrand(parsedHTML, detectedFacts)
                     = DOMAIN BrandSourcesOf(parsedHTML)

\* C24: N1 is pass exactly when at least two sources are non-empty and every
\* non-empty source contains the brand, and it is partial when exactly one
\* source contains the brand
C24_BrandConsistencyStatus ==
    /\ N1PassRule
    /\ (Len(checkResults) >= 22 /\ ~N1Throws(parsedHTML))
       => (Cardinality(SourcesWithBrand(parsedHTML, detectedFacts)) = 1
             => checkResults[22].status = "partial")

-----------------------------------------------------------------------------
(* C25: the status and evidence of the H1 check C1                         *)

\* the texts of the h1 elements of the raw document, in document order
H1Texts ==
    LET h1s == SelectSeq(rawData.html.headings, LAMBDA h : h.level = 1)
    IN  [i \in DOMAIN h1s |-> h1s[i].text]

\* the only H1 contains the derived locality, whatever the case of letters
SingleH1NamesLocality ==
    /\ Len(H1Texts) = 1
    /\ detectedFacts.locality # <<>>
    /\ includes(LowerText(H1Texts[1]), LowerText(detectedFacts.locality))

\* C25: C1 is pass exactly when there is one H1 and it contains the derived
\* locality, partial exactly when there is one H1 and it does not (or no
\* locality was derived), fail exactly when there is no H1 or more than one;
\* with several H1s every H1 text occurs in the evidence
C25_SingleH1Status ==
    (rawData.state = "ok" /\ Len(checkResults) >= 16)
    => LET C1 == checkResults[16]
       IN  /\ C1.id = "C1"
           /\ C1.status = "pass" <=> SingleH1NamesLocality
           /\ C1.status = "partial" <=> (Len(H1Texts) = 1 /\ ~SingleH1NamesLocality)
           /\ C1.status = "fail" <=> Len(H1Texts) # 1
           /\ Len(H1Texts) > 1
                => \A i \in DOMAIN H1Texts :
                      \E k \in DOMAIN C1.evidence :
                         SubSeq(C1.evidence, k, k + Len(H1Texts[i]) - 1) = H1Texts[i]

\* a page with two H1s was graded
C25_Witness ==
    /\ rawData.state = "ok"
    /\ Len(checkResults) >= 16
    /\ Len(H1Texts) = 2
    /\ H1Texts[1] # H1Texts[2]
    /\ checkResults[16].status = "fail"

-----------------------------------------------------------------------------
(* C26: the status and evidence of the Open Graph check M5                 *)

OgTags == {"og:title", "og:description", "og:url", "og:image"}

\* C26: M5 is pass exactly with all four tags, partial exactly with two or
\* three, fail with fewer; a result that is not pass gives the count as k/4
\* and names every missing tag and no tag that is present
C26_OpenGraphStatus ==
    (rawData.state = "ok" /\ Len(checkResults) >= 10)
    => LET M5 == checkResults[10]
           present == rawData.html.og \cap OgTags
           k == Cardinality(present)
       IN  /\ M5.id = "M5"
           /\ M5.status = "pass" <=> k = 4
           /\ M5.status = "partial" <=> k \in {2, 3}
           /\ M5.status = "fail" <=> k < 2
           /\ M5.status # "pass"
                => /\ \E i \in DOMAIN M5.evidence :
                         /\ i < Len(M5.evidence)
                         /\ M5.evidence[i] = ToString(k)
                         /\ M5.evidence[i + 1] = "/4 Open Graph tags"
                   /\ {M5.evidence[i] : i \in DOMAIN M5.evidence} \cap OgTags
                        = OgTags \ present

\* three of the four tags: partial, 3/4, og:image named as missing
C26_Witness ==
    /\ rawData.state = "ok"
    /\ Len(checkResults) >= 10
    /\ rawData.html.og \cap OgTags = OgTags \ {"og:image"}
    /\ checkResults[10].status = "partial"
    /\ "og:image" \in {checkResults[10].evidence[i] : i \in DOMAIN checkResults[10].evidence}

-----------------------------------------------------------------------------
(* C27: what a run of runAllChecks returns                                 *)

\* one result per check id, none twice, each with evidence
OneResultPerCheck(results) ==
    /\ Len(results) = Cardinality(CheckIds)
    /\ {results[i].id : i \in DOMAIN results} = CheckIds
    /\ \A i \in DOMAIN results :
          /\ results[i].status \in CheckStatus
          /\ results[i].evidence # <<>>
          /\ \A k \in DOMAIN results[i].evidence : results[i].evidence[k] # ""

\* C27: once a run of runAllChecks has ended, whatever the render, the
\* robots.txt and the sitemap.xml calls did, it has returned exactly one
\* CheckResult per check id, each with at least one evidence string
C27_OneResultPerCheckId ==
    ("robots" \in netCalls /\ pc \in {"ai", "done"}) => OneResultPerCheck(checkResults)

\* the runs that return do return one result per check id
ReturnedRunsComplete ==
    ("robots" \in netCalls /\ pc \in {"ai", "done"} /\ categoryResults # <<>>)
    => OneResultPerCheck(checkResults)

-----------------------------------------------------------------------------
(* SpecGated: the phase-gated analyze route (analyze/route.ts): POST runs  *)
(* runPhase1Checks whatever the phase, then the phase-gated aggregation    *)

\* runPhase1Checks after renderRemotely settled: F5, M1, M4, S1, S2, C1, N1.
\* M1, M4 and C1 branch as in runAllChecks; the pages of the pool have no h1
\* with an empty text and no schema name that is not a string
runPhase1Checks(c) ==
    LET h1Match == c.parsed.h1 = c.renderedParsed.h1
        textSimilarity ==
            calculateTextSimilarity(c.parsed.mainText, c.renderedParsed.mainText)
        F5 == IF c.renderedData.state # "ok"
              THEN createCheckResult("F5", "fail",
                       <<"JS rendering failed: ", c.renderedData.message>>)
              ELSE IF h1Match /\ 10 * textSimilarity.num > 8 * textSimilarity.den
                   THEN createCheckResult("F5", "pass",
                            <<"H1 matches between raw and rendered HTML">>)
                   ELSE IF h1Match \/ 10 * textSimilarity.num > 6 * textSimilarity.den
                        THEN createCheckResult("F5", "partial",
                                 <<IF h1Match THEN "H1 matches" ELSE "H1 differs">>)
                        ELSE createCheckResult("F5", "fail",
                                 <<"H1 differs between raw and rendered HTML">>)
        S1 == IF Len(c.parsed.jsonLd) > 0
              THEN createCheckResult("S1", "pass", <<"Found valid JSON-LD block(s)">>)
              ELSE createCheckResult("S1", "fail", <<"No valid JSON-LD found">>)
        isLocalBusiness(item) ==
            LET t == Prop(item, "@type")
            IN  \/ t.kind = "string" /\ t.s = <<"LocalBusiness">>
                \/ /\ t.kind = "array"
                   /\ \E i \in DOMAIN t.elems :
                         t.elems[i].kind = "string" /\ t.elems[i].s = <<"LocalBusiness">>
        found == {i \in DOMAIN c.parsed.jsonLd : isLocalBusiness(c.parsed.jsonLd[i])}
        localBusiness == IF found = {} THEN Undefined ELSE c.parsed.jsonLd[Min(found)]
        foundEssentials ==
            {prop \in {"name", "url", "telephone", "address"} :
                Truthy(Prop(localBusiness, prop))}
        S2 == IF found # {}
              THEN IF Cardinality(foundEssentials) >= 3
                   THEN createCheckResult("S2", "pass",
                            <<"LocalBusiness schema found with essentials">>)
                   ELSE createCheckResult("S2", "partial",
                            <<"LocalBusiness schema found with essentials">>)
              ELSE createCheckResult("S2", "fail", <<"No LocalBusiness schema found">>)
        brandSources ==
            SelectSeq(<<StringOrUndefined(c.parsed.title), StringOrUndefined(c.parsed.h1),
                        OptProp(localBusiness, "name")>>, Truthy)
        brandConsistency ==
            \A i \in DOMAIN brandSources :
                brandSources[i].kind = "string" /\ HasFact(brandSources[i].s, c.facts.brand)
        N1 == IF brandConsistency /\ Len(brandSources) >= 2
              THEN createCheckResult("N1", "pass",
                       <<"Brand consistent across title, H1, and schema">>)
              ELSE IF Len(brandSources) >= 2
                   THEN createCheckResult("N1", "partial",
                            <<"Brand found in some but not all sources">>)
                   ELSE createCheckResult("N1", "fail",
                            <<"Brand not consistently found across sources">>)
    IN  <<F5, checkM1(c), checkM4(c), S1, S2, checkC1(c), N1>>

\* the rest of the gated POST once renderRemotely settled: the results, the
\* six category scores of the phase, the total, the answer
AfterRenderGated(results, renderedData_) ==
    \E c \in {Context(rawData, renderedData_, robotsResponse, sitemapResponse)} :
    \E all \in {results \o runPhase1Checks(c)} :
    \E categories \in {[i \in DOMAIN POSTCategories |->
                           computeCategoryScore_phase(POSTCategories[i], all, phase)]} :
       /\ checkResults' = all
       /\ categoryResults' = categories
       /\ total_score' = computeTotalScore_phase(categories, phase)
       /\ Reply(Success([url |-> AnalyzeBody.url, final_url |-> rawData.finalUrl,
                         rubric_version |-> "2.0.0", total_score |-> total_score',
                         categories |-> categories, phase |-> phase], "absent"))

\* fetchRaw resolves in the gated route: parseHTML, extractFacts, F1, F2, then
\* renderRemotely, which throws at once when CF_RENDER_ENDPOINT is not set
FetchRawResolvesGated(html, status) ==
    /\ pc = "fetchRaw"
    /\ gated
    /\ rawData' = [state |-> "ok", html |-> html, finalUrl |-> FinalUrl, status |-> status]
    /\ parsedHTML' = parseHTML(html)
    /\ IF extractFactsThrows(parsedHTML')
       THEN /\ Reply(CatchResponse("Cannot read properties of null"))
            /\ UNCHANGED <<detectedFacts, checkResults, netCalls>>
       ELSE /\ detectedFacts' = extractFacts(parsedHTML')
            /\ \E c \in {Context(rawData', renderedData, robotsResponse, sitemapResponse)} :
                  checkResults' = <<checkF1(c), checkF2(c)>>
            /\ netCalls' = IF env.CF_RENDER_ENDPOINT THEN netCalls \cup {"render"}
                           ELSE netCalls
            /\ pc' = "render"
            /\ UNCHANGED <<analyzeData, response>>
    /\ UNCHANGED <<gated, phase, categoryResults, total_score, renderedData, robotsResponse,
                   sitemapResponse, env, rubricData, worker, request>>

\* what renderRemotely can do in the process: throw at once without
\* CF_RENDER_ENDPOINT, any outcome of the render service with it
RenderOutcomesOf(env_) ==
    IF env_.CF_RENDER_ENDPOINT THEN RenderOutcomes
    ELSE {[state |-> "failed",
           message |-> "CF_RENDER_ENDPOINT environment variable not set"]}

AllRenderOutcomes == RenderOutcomes \cup RenderOutcomesOf([CF_RENDER_ENDPOINT |-> FALSE])

\* renderRemotely settles in the gated route
RenderSettlesGated(outcome) ==
    /\ pc = "render"
    /\ gated
    /\ outcome \in RenderOutcomesOf(env)
    /\ renderedData' = outcome
    /\ AfterRenderGated(checkResults, outcome)
    /\ UNCHANGED <<gated, phase, rawData, parsedHTML, detectedFacts, robotsResponse,
                   sitemapResponse, env, rubricData, worker, request, netCalls>>

\* a process serving the gated route, in any configured phase
InitGated ==
    /\ gated = TRUE
    /\ phase \in DOMAIN PHASES
    /\ checkResults = <<>>
    /\ categoryResults = <<>>
    /\ total_score = NoScore
    /\ pc = "idle"
    /\ request = NoRequest
    /\ env \in [CF_RENDER_ENDPOINT : BOOLEAN, OPENAI_API_KEY : {FALSE}]
    /\ rubricData = CheckIds
    /\ worker = WorkerIdle
    /\ netCalls = {}
    /\ rawData = [state |-> "none"]
    /\ parsedHTML = [state |-> "none"]
    /\ detectedFacts = [state |-> "none"]
    /\ renderedData = [state |-> "none"]
    /\ robotsResponse = [state |-> "none"]
    /\ sitemapResponse = [state |-> "none"]
    /\ analyzeData = [state |-> "none"]
    /\ response = [state |-> "none"]

NextGated ==
    \/ \E body \in Bodies : Receive("analyze", body)
    \/ AnalyzePOST
    \/ \E message \in fetchRawErrors : FetchRawThrows(message)
    \/ \E r \in RawResponses : FetchRawResolvesGated(r.html, r.status)
    \/ \E outcome \in AllRenderOutcomes : RenderSettlesGated(outcome)

SpecGated == InitGated /\ [][NextGated]_vars

\* C28: in an answer of the gated route every check active in the phase has
\* a CheckResult, and each category's max_score is the weight of its active
\* checks that were evaluated (in half points)
C28_ActiveChecksAreEvaluated ==
    (gated /\ response.state = "sent" /\ response.success)
    => LET evaluated == {checkResults[i].id : i \in DOMAIN checkResults}
       IN  /\ PHASES[phase].enabled_checks \subseteq evaluated
           /\ \A k \in DOMAIN response.scorecard.categories :
                 response.scorecard.categories[k].max_score
                   = SumWeights({id \in evaluated \cap PHASES[phase].enabled_checks :
                                    CategoryHasCheck(FindCategory(POSTCategories[k]), id)})

-----------------------------------------------------------------------------
(* C29: JSON-LD blocks that hold values other than objects                 *)

\* C29: once the page has been fetched, whatever its JSON-LD blocks parse
\* to, extractFacts and the checks complete, so the analysis is never
\* answered with success:false
C29_NonObjectJsonLdNeverFails ==
    (rawData.state = "ok" /\ response.state = "sent") => response.success

-----------------------------------------------------------------------------
(* The render worker: cloudflare/src/worker.ts                              *)

WorkerMethods == {"GET", "POST", "OPTIONS"}

\* the url query parameter: missing, not a URL, a URL
WorkerUrls == {"", "not a url", "https://a.test/"}

\* env.RENDER_TOKEN ("" when not configured) and the x-render-token header
WorkerTokens == {"", "t", "x"}

\* the awaits inside the inner try block, in the order of the code
PageSteps == <<"setUserAgent", "goto", "waitForTimeout", "content", "pageClose">>

StepAfter(step) ==
    LET i == CHOOSE k \in DOMAIN PageSteps : PageSteps[k] = step
    IN  IF i = Len(PageSteps) THEN "browserClose" ELSE PageSteps[i + 1]

PageOutcomes == {"resolves", "null", "rejects", "timeout"}

\* the worker answers; the request is over
WorkerReturns(w, status, error) ==
    [w EXCEPT !.pc = "done", !.status = status, !.error = error]

\* fetch(request, env) up to its first await: the answers given without a browser
WorkerFetch(method, url, expectedToken, authToken) ==
    /\ worker.pc = "idle"
    /\ LET w == [worker EXCEPT !.method = method, !.url = url,
                               !.expectedToken = expectedToken,
                               !.authToken = authToken]
       IN  worker' =
             IF method = "OPTIONS" THEN WorkerReturns(w, 200, "")
             ELSE IF method # "GET" THEN WorkerReturns(w, 405, "Method not allowed")
             ELSE IF url = "" THEN WorkerReturns(w, 400, "Missing url parameter")
             ELSE IF url = "not a url" THEN WorkerReturns(w, 400, "Invalid URL format")
             ELSE IF expectedToken # "" /\ authToken # expectedToken
                  THEN WorkerReturns(w, 401, "Unauthorized")
             ELSE [w EXCEPT !.pc = "launch"]
    /\ UNCHANGED <<ScoreVars, FetchVars, pc, request, env, rubricData, netCalls,
                   analyzeData, response>>

\* const browser = await env.BROWSER.launch(): a rejection is caught by the outer
\* catch, which answers 500
Launch(resolves) ==
    /\ worker.pc = "launch"
    /\ worker' = IF resolves
                 THEN [worker EXCEPT !.pc = "newPage", !.browser = "open"]
                 ELSE WorkerReturns(worker, 500, "launch rejects")
    /\ UNCHANGED <<ScoreVars, FetchVars, pc, request, env, rubricData, netCalls,
                   analyzeData, response>>

\* const page = await browser.newPage(): the await stands before the inner try, so
\* a rejection goes to the outer catch and not through the finally block
NewPage(resolves) ==
    /\ worker.pc = "newPage"
    /\ worker' = IF resolves
                 THEN [worker EXCEPT !.pc = "setUserAgent", !.page = "open"]
                 ELSE WorkerReturns(worker, 500, "newPage rejects")
    /\ UNCHANGED <<ScoreVars, FetchVars, pc, request, env, rubricData, netCalls,
                   analyzeData, response>>

\* one await of the inner try block. A rejection, the timeout of goto and the
\* throw on a null response leave the block through finally with the error
\* pending; the return after page.close() leaves it with the 200 answer pending
PageAwait(outcome) ==
    /\ worker.pc \in {PageSteps[i] : i \in DOMAIN PageSteps}
    /\ outcome \in {"null", "timeout"} => worker.pc = "goto"
    /\ worker' =
         IF outcome = "resolves"
         THEN IF worker.pc = "pageClose"
              THEN [worker EXCEPT !.pc = "browserClose", !.page = "closed",
                                  !.pending = 200]
              ELSE [worker EXCEPT !.pc = StepAfter(worker.pc)]
         ELSE [worker EXCEPT !.pc = "browserClose", !.pending = 500,
                             !.error = IF outcome = "null" THEN "Failed to load page"
                                       ELSE worker.pc \o " " \o outcome]
    /\ UNCHANGED <<ScoreVars, FetchVars, pc, request, env, rubricData, netCalls,
                   analyzeData, response>>

\* finally { await browser.close() }: then the pending return or, through the
\* outer catch, the 500 answer; a rejection of close() replaces what was pending
BrowserClose(resolves) ==
    /\ worker.pc = "browserClose"
    /\ worker' = IF resolves
                 THEN [WorkerReturns(worker, worker.pending, worker.error)
                         EXCEPT !.browser = "closed"]
                 ELSE [WorkerReturns(worker, 500, "close rejects")
                         EXCEPT !.browser = "closeRejected"]
    /\ UNCHANGED <<ScoreVars, FetchVars, pc, request, env, rubricData, netCalls,
                   analyzeData, response>>

InitWorker ==
    /\ gated = FALSE
    /\ phase = 1
    /\ checkResults = <<>>
    /\ categoryResults = <<>>
    /\ total_score = NoScore
    /\ Idle

NextWorker ==
    \/ \E method \in WorkerMethods, url \in WorkerUrls,
          expectedToken \in {"", "t"}, authToken \in WorkerTokens :
            WorkerFetch(method, url, expectedToken, authToken)
    \/ \E resolves \in BOOLEAN : Launch(resolves)
    \/ \E resolves \in BOOLEAN : NewPage(resolves)
    \/ \E outcome \in PageOutcomes : PageAwait(outcome)
    \/ \E resolves \in BOOLEAN : BrowserClose(resolves)

SpecWorker == InitWorker /\ [][NextWorker]_vars

\* C30: every request of the render worker that launched a browser has called
\* browser.close() on it when the worker returns its response, on the success
\* path and on every failure path after the launch
C30_LaunchedBrowserIsClosed ==
    (worker.pc = "done" /\ worker.browser # "none")
        => worker.browser \in {"closed", "closeRejected"}

\* the failure paths inside the inner try block (navigation failure, timeout,
\* content error) and the success path do go through browser.close()
InnerTryClosesBrowser ==
    (worker.pc = "done" /\ worker.page # "none")
        => worker.browser \in {"closed", "closeRejected"}

====
